---- MODULE Spec2Model ----
(***************************************************************************)
(* Resolution-and-caching orchestration layer of the Jagriti API wrapper:  *)
(* CacheService (TTL caches), JagritiClient (retrying upstream client),    *)
(* MapperService (reference data resolver) and CaseService (search         *)
(* orchestrator).                                                          *)
(*                                                                         *)
(* Strings that are normalised or matched are sequences of one-character   *)
(* strings.  An optional value is <<>> (None) or <<v>>.                    *)
(***************************************************************************)
EXTENDS Integers, Sequences, FiniteSets, TLC

VARIABLES now, cache, upstream, req

vars == <<now, cache, upstream, req>>

Range(seq) == {seq[i] : i \in 1..Len(seq)}

None == <<>>

Some(v) == <<v>>

IsNone(o) == Len(o) = 0

\* Python truthiness of an optional list: None and [] are both falsy.
Truthy(o) == Len(o) = 1 /\ Len(o[1]) > 0

(***************************************************************************)
(* Text normalisation and matching (MapperService).                        *)
(***************************************************************************)
TAB == "\t"

\* Characters str.strip() removes at both ends.
Whitespace == {" ", TAB}

\* str.upper(), character by character.
Upper(ch) ==
    CASE ch = "x" -> "X"
      [] ch = "y" -> "Y"
      [] ch = "q" -> "Q"
      [] ch = "z" -> "Z"
      [] OTHER -> ch

UpperStr(s) == [i \in 1..Len(s) |-> Upper(s[i])]

RECURSIVE LStrip(_)
LStrip(s) ==
    IF Len(s) > 0 /\ s[1] \in Whitespace THEN LStrip(Tail(s)) ELSE s

RECURSIVE RStrip(_)
RStrip(s) ==
    IF Len(s) > 0 /\ s[Len(s)] \in Whitespace
    THEN RStrip(SubSeq(s, 1, Len(s) - 1))
    ELSE s

Strip(s) == RStrip(LStrip(s))

\* str.replace(ch, "")
Remove(ch, s) == SelectSeq(s, LAMBDA c : c /= ch)

normalize_text(text) ==
    LET normalized == UpperStr(Strip(text))
    IN  Remove(" ", Remove(")", Remove("(", normalized)))

\* Python's "search in target" for strings: a contiguous substring.
IsSubstring(search, target) ==
    \E i \in 0..(Len(target) - Len(search)) :
        SubSeq(target, i + 1, i + Len(search)) = search

\* Variant: only equal normalised texts match.
fuzzy_match_exact(search_text, target_text) ==
    normalize_text(search_text) = normalize_text(target_text)

fuzzy_match(search_text, target_text) ==
    LET search == normalize_text(search_text)
        target == normalize_text(target_text)
    IN  IF search = target THEN TRUE
        ELSE IF IsSubstring(search, target) THEN TRUE
        ELSE FALSE

(***************************************************************************)
(* Settings and cache parameters.                                          *)
(***************************************************************************)
CACHE_TTL_STATES == 86400

CACHE_TTL_CATEGORIES == 86400

COMMISSIONS_TTL == 21600

COMMISSIONS_MAXSIZE == 50

JUDGES_TTL == 21600

JUDGES_MAXSIZE == 100

CASES_TTL == 300

CASES_MAXSIZE == 200

\* stop_after_attempt(3)
STOP_AFTER_ATTEMPT == 3

(***************************************************************************)
(* cachetools.TTLCache: a sequence of entries [key, value, expires] in the *)
(* order of its link list (least recently used first).                     *)
(***************************************************************************)
TTLExpire(c, time) == SelectSeq(c, LAMBDA e : time < e.expires)

TTLHas(c, key, time) ==
    \E i \in 1..Len(c) : c[i].key = key /\ time < c[i].expires

TTLValue(c, key) == (CHOOSE i \in 1..Len(c) : c[i].key = key)

\* Cache.get(key): the value, or None when the key is absent or expired.
TTLGetValue(c, key, time) ==
    IF TTLHas(c, key, time) THEN Some(c[TTLValue(c, key)].value) ELSE None

\* Cache.get(key) on a hit moves the key's link to the end of the list.
TTLGetCache(c, key, time) ==
    IF TTLHas(c, key, time)
    THEN SelectSeq(c, LAMBDA e : e.key /= key) \o <<c[TTLValue(c, key)]>>
    ELSE c

\* Variant: a full cache is left to grow.
TTLEvict_never(c, maxsize) == c

\* Variant: popitem takes the entry at the other end of the list.
RECURSIVE TTLEvict_newest(_, _)
TTLEvict_newest(c, maxsize) ==
    IF Len(c) + 1 > maxsize
    THEN TTLEvict_newest(SubSeq(c, 1, Len(c) - 1), maxsize)
    ELSE c

RECURSIVE TTLEvict(_, _)
TTLEvict(c, maxsize) ==
    IF Len(c) + 1 > maxsize THEN TTLEvict(Tail(c), maxsize) ELSE c

\* TTLCache.__setitem__: expire, make room, store, re-link at the end.
TTLSet(c, key, value, time, maxsize, ttl) ==
    LET live  == TTLExpire(c, time)
        has   == \E i \in 1..Len(live) : live[i].key = key
        rest  == SelectSeq(live, LAMBDA e : e.key /= key)
        room  == IF has THEN rest ELSE TTLEvict(live, maxsize)
    IN  room \o <<[key |-> key, value |-> value, expires |-> time + ttl]>>

\* len(cache): expired entries are dropped before counting.
TTLLen(c, time) == Len(TTLExpire(c, time))

(***************************************************************************)
(* Exceptions (app/utils/exceptions.py and the ones the libraries raise).  *)
(* names holds the names the exception's message carries.                  *)
(***************************************************************************)
Exception(type, status_code, names) ==
    [type |-> type, status_code |-> status_code, names |-> names]

NoExc == Exception("", 0, <<>>)

JagritiAPIException(status_code) ==
    Exception("JagritiAPIException", status_code, <<>>)

APITimeoutException == Exception("APITimeoutException", 408, <<>>)

APIConnectionException == Exception("APIConnectionException", 503, <<>>)

StateNotFoundException(state_name) ==
    Exception("StateNotFoundException", 404, <<state_name>>)

\* The message is built from the constructor's argument, whatever it holds.
CommissionNotFoundException(commission_name) ==
    Exception("CommissionNotFoundException", 404, commission_name)

CategoryNotFoundException(category_name) ==
    Exception("CategoryNotFoundException", 404, <<category_name>>)

JudgeNotFoundException(judge_name) ==
    Exception("JudgeNotFoundException", 404, <<judge_name>>)

\* tenacity.RetryError and the builtin errors carry no status code.
RetryError == Exception("RetryError", 0, <<>>)

\* record["key"] on a record that has no such key.
KeyError == Exception("KeyError", 0, <<>>)

\* JagritiAPIException and its subclasses.
JagritiAPIExceptions ==
    {"JagritiAPIException", "APITimeoutException", "APIConnectionException",
     "StateNotFoundException", "CommissionNotFoundException",
     "CategoryNotFoundException", "JudgeNotFoundException",
     "InvalidSearchTypeException", "CaseDataException"}

\* Variant: the first handler catches the base class only.
HTTPException_base_only(e) ==
    IF e.type = "JagritiAPIException" THEN e.status_code ELSE 500

\* The status code of the HTTPException a route raises for exception e:
\* except JagritiAPIException as e: HTTPException(status_code=e.status_code)
\* except Exception: HTTPException(status_code=500)
HTTPException(e) ==
    IF e.type \in JagritiAPIExceptions THEN e.status_code ELSE 500

(***************************************************************************)
(* CacheService.                                                           *)
(***************************************************************************)
CacheInit ==
    [states_cache          |-> None,
     states_cache_time     |-> None,
     categories_cache      |-> None,
     categories_cache_time |-> None,
     commissions_cache     |-> <<>>,
     judges_cache          |-> <<>>,
     cases_cache           |-> <<>>]

is_cache_valid(cache_time, ttl_seconds, time) ==
    IF IsNone(cache_time) THEN FALSE
    ELSE time - cache_time[1] < ttl_seconds

get_states(c) == c.states_cache

set_states(c, data, time) ==
    [c EXCEPT !.states_cache = Some(data), !.states_cache_time = Some(time)]

is_states_valid(c, ttl, time) == is_cache_valid(c.states_cache_time, ttl, time)

get_categories(c) == c.categories_cache

set_categories(c, data, time) ==
    [c EXCEPT !.categories_cache = Some(data),
              !.categories_cache_time = Some(time)]

is_categories_valid(c, ttl, time) ==
    is_cache_valid(c.categories_cache_time, ttl, time)

commissions_key(state_id) == <<"commissions", state_id>>

\* get_commissions: the value read, and the cache after the read.
get_commissions(c, state_id, time) ==
    TTLGetValue(c.commissions_cache, commissions_key(state_id), time)

get_commissions_cache(c, state_id, time) ==
    [c EXCEPT !.commissions_cache =
                  TTLGetCache(@, commissions_key(state_id), time)]

\* Variant: an entry that is already there is kept (first write wins).
set_commissions_if_absent(c, state_id, data, time) ==
    IF TTLHas(c.commissions_cache, commissions_key(state_id), time) THEN c
    ELSE [c EXCEPT !.commissions_cache =
                       TTLSet(@, commissions_key(state_id), data, time,
                              COMMISSIONS_MAXSIZE, COMMISSIONS_TTL)]

set_commissions(c, state_id, data, time) ==
    [c EXCEPT !.commissions_cache =
                  TTLSet(@, commissions_key(state_id), data, time,
                         COMMISSIONS_MAXSIZE, COMMISSIONS_TTL)]

\* Variant: the key leaves the commission out.
judges_key_shared(commission_id) == <<"judges", 0>>

judges_key(commission_id) == <<"judges", commission_id>>

get_judges(c, commission_id, time) ==
    TTLGetValue(c.judges_cache, judges_key(commission_id), time)

get_judges_cache(c, commission_id, time) ==
    [c EXCEPT !.judges_cache = TTLGetCache(@, judges_key(commission_id), time)]

set_judges(c, commission_id, data, time) ==
    [c EXCEPT !.judges_cache =
                  TTLSet(@, judges_key(commission_id), data, time,
                         JUDGES_MAXSIZE, JUDGES_TTL)]

\* json.dumps of one parameter value: null, a number, or a quoted string.
json_dumps_value(v) ==
    [json  |-> CASE v.t = "None" -> "null"
                 [] v.t = "int"  -> "number"
                 [] OTHER        -> "string",
     n     |-> v.i,
     chars |-> v.s]

\* The parameter names of the model, in the order sort_keys puts them.
SortedNames == <<"page", "state">>

NameRank(name) == CHOOSE i \in 1..Len(SortedNames) : SortedNames[i] = name

\* Variant: json.dumps without sort_keys keeps the order of the call.
generate_cache_key_unsorted(kwargs) ==
    [i \in 1..Len(kwargs) |-> <<kwargs[i][1], json_dumps_value(kwargs[i][2])>>]

\* _generate_cache_key: kwargs is the sequence of (name, value) pairs in the
\* order of the call.  The md5 digest is taken to be free of collisions, so
\* the serialisation stands for it.
generate_cache_key(kwargs) ==
    LET key_string == SortSeq(kwargs, LAMBDA a, b : NameRank(a[1]) < NameRank(b[1]))
    IN  [i \in 1..Len(key_string) |->
            <<key_string[i][1], json_dumps_value(key_string[i][2])>>]

get_cases(c, kwargs, time) ==
    TTLGetValue(c.cases_cache, generate_cache_key(kwargs), time)

get_cases_cache(c, kwargs, time) ==
    [c EXCEPT !.cases_cache = TTLGetCache(@, generate_cache_key(kwargs), time)]

set_cases(c, data, kwargs, time) ==
    [c EXCEPT !.cases_cache =
                  TTLSet(@, generate_cache_key(kwargs), data, time,
                         CASES_MAXSIZE, CASES_TTL)]

get_stats(c, time) ==
    [states_cached     |-> ~IsNone(c.states_cache),
     categories_cached |-> ~IsNone(c.categories_cache),
     commissions_count |-> TTLLen(c.commissions_cache, time),
     judges_count      |-> TTLLen(c.judges_cache, time),
     cases_count       |-> TTLLen(c.cases_cache, time)]

\* len(TTLCache) drops the expired entries before it counts in cachetools 5
\* and counts around them in cachetools 4: purge tells which build runs.
get_stats_cache(c, time, purge) ==
    IF purge
    THEN [c EXCEPT !.commissions_cache = TTLExpire(@, time),
                   !.judges_cache      = TTLExpire(@, time),
                   !.cases_cache       = TTLExpire(@, time)]
    ELSE c

\* Variant: the two whole-value caches are left as they are.
clear_all_keyed(c) ==
    [c EXCEPT !.commissions_cache = <<>>, !.judges_cache = <<>>,
              !.cases_cache = <<>>]

\* Variant: the values are dropped and their timestamps kept.
clear_all_values(c) ==
    [CacheInit EXCEPT !.states_cache_time = c.states_cache_time,
                      !.categories_cache_time = c.categories_cache_time]

clear_all(c) == CacheInit

(***************************************************************************)
(* Python values that may be None, an int or a str, and str(value).        *)
(* digits marks a str that is the decimal text of the int i.               *)
(***************************************************************************)
PyNone == [t |-> "None", i |-> 0, s |-> <<>>, digits |-> FALSE]

PyInt(n) == [t |-> "int", i |-> n, s |-> <<>>, digits |-> FALSE]

PyStr(chars) == [t |-> "str", i |-> 0, s |-> chars, digits |-> FALSE]

PyTruthy(v) == (v.t = "int" /\ v.i /= 0) \/ (v.t = "str" /\ (v.s /= <<>> \/ v.digits))

PyOr(a, b) == IF PyTruthy(a) THEN a ELSE b

Str(v) ==
    CASE v.t = "None" -> PyStr(<<"N", "o", "n", "e">>)
      [] v.t = "int"  -> [t |-> "str", i |-> v.i, s |-> <<>>, digits |-> TRUE]
      [] OTHER        -> v

(***************************************************************************)
(* Upstream records and the formatting of fetched lists (MapperService).   *)
(***************************************************************************)
RawRegion(id, name, circuit, active) ==
    [commissionId |-> id, commissionNameEn |-> name,
     circuitAdditionBenchStatus |-> circuit, activeStatus |-> active]

RawCategory(id, name) == [caseCategoryId |-> id, caseCategoryNameEn |-> name]

RawJudge(id, name) == [judgeId |-> id, judgeName |-> name]

\* A raw record is a dict: a key upstream left out is not in its DOMAIN.
HasKeys(record, keys) == keys \subseteq DOMAIN record

RegionKeys ==
    {"commissionId", "commissionNameEn", "circuitAdditionBenchStatus", "activeStatus"}

\* The comprehension reads s["activeStatus"] of every record, and the other
\* keys of the records it keeps.
RegionRaises(s) ==
    \/ ~HasKeys(s, {"activeStatus"})
    \/ s.activeStatus /\ ~HasKeys(s, RegionKeys)

CategoryRaises(c) == ~HasKeys(c, {"caseCategoryId", "caseCategoryNameEn"})

JudgeRaises(j) == ~HasKeys(j, {"judgeId", "judgeName"})

\* Some record of the list makes the comprehension raise KeyError.
RegionsRaise(records) == \E i \in 1..Len(records) : RegionRaises(records[i])

CategoriesRaise(records) == \E i \in 1..Len(records) : CategoryRaises(records[i])

JudgesRaise(records) == \E i \in 1..Len(records) : JudgeRaises(records[i])

FormatRegion(s) ==
    [commission_id    |-> s.commissionId,
     commission_name  |-> s.commissionNameEn,
     is_circuit_bench |-> s.circuitAdditionBenchStatus,
     is_active        |-> s.activeStatus]

\* Variant: the comprehension has no "if s['activeStatus']".
filtered_states_all(states_data) ==
    [i \in 1..Len(states_data) |-> FormatRegion(states_data[i])]

\* The list comprehension of get_all_states / get_commissions_by_state.
filtered_states(states_data) ==
    LET kept == SelectSeq(states_data, LAMBDA s : s.activeStatus)
    IN  [i \in 1..Len(kept) |-> FormatRegion(kept[i])]

formatted_districts(districts_data) ==
    LET kept == SelectSeq(districts_data, LAMBDA d : d.activeStatus)
    IN  [i \in 1..Len(kept) |-> FormatRegion(kept[i])]

FormatCategory(c) ==
    [category_id |-> c.caseCategoryId, category_name |-> c.caseCategoryNameEn]

formatted_categories(categories_data) ==
    [i \in 1..Len(categories_data) |-> FormatCategory(categories_data[i])]

formatted_judges(judges_data, commission_id) ==
    [i \in 1..Len(judges_data) |->
        [judge_id      |-> judges_data[i].judgeId,
         judge_name    |-> judges_data[i].judgeName,
         commission_id |-> commission_id]]

\* "for x in list: if _fuzzy_match(name, x[...]): return x": the index of the
\* first name that matches, 0 when the loop ends without a match.
\* Variant: the scan keeps the last match instead of returning the first.
RECURSIVE ScanLast(_, _, _)
ScanLast(search_name, names, i) ==
    IF i > Len(names) THEN 0
    ELSE LET later == ScanLast(search_name, names, i + 1)
         IN  IF later > 0 THEN later
             ELSE IF fuzzy_match(search_name, names[i]) THEN i
             ELSE 0

RECURSIVE ScanFrom(_, _, _)
ScanFrom(search_name, names, i) ==
    IF i > Len(names) THEN 0
    ELSE IF fuzzy_match(search_name, names[i]) THEN i
    ELSE ScanFrom(search_name, names, i + 1)

find_state_by_name(state_name, states) ==
    ScanFrom(state_name, [i \in 1..Len(states) |-> states[i].commission_name], 1)

find_category_by_name(category_name, categories) ==
    ScanFrom(category_name,
             [i \in 1..Len(categories) |-> categories[i].category_name], 1)

find_judge_by_name(judge_name, judges) ==
    ScanFrom(judge_name, [i \in 1..Len(judges) |-> judges[i].judge_name], 1)

\* Steps 4 and 5 of find_commission_by_name: the matches in list order, then
\* list.sort(key=is_circuit), a stable sort that puts False before True.
commission_matches(commission_name, commissions) ==
    SelectSeq(commissions,
              LAMBDA cm : fuzzy_match(commission_name, cm.commission_name))

\* Variant: the matches are left in list order.
sort_by_nothing(matches) == matches

sort_by_circuit(matches) ==
    SelectSeq(matches, LAMBDA m : ~m.is_circuit_bench)
        \o SelectSeq(matches, LAMBDA m : m.is_circuit_bench)

\* Variant: the error is built without the list of names.
available_none(commissions) == <<>>

available_commissions(commissions) ==
    [i \in 1..Len(commissions) |-> commissions[i].commission_name]

(***************************************************************************)
(* CaseService helpers.                                                    *)
(***************************************************************************)
\* The calendar year of the clock at time 0.
StartYear == 2025

SecondsPerYear == 365 * 24 * 3600

CurrentYear(time) == StartYear + (time \div SecondsPerYear)

\* Variant: the year is read once, when the service is constructed.
get_default_date_range_at_startup(time) ==
    <<[t |-> "str", i |-> StartYear, s |-> <<"-01-01">>, digits |-> FALSE],
      [t |-> "str", i |-> StartYear, s |-> <<"-12-31">>, digits |-> FALSE]>>

\* f"{current_year}-01-01", f"{current_year}-12-31"
get_default_date_range(time) ==
    <<[t |-> "str", i |-> CurrentYear(time), s |-> <<"-01-01">>, digits |-> FALSE],
      [t |-> "str", i |-> CurrentYear(time), s |-> <<"-12-31">>, digits |-> FALSE]>>

\* A raw case: each required field is Some(text), or None for a JSON null.
\* CaseResponse rejects a null in a required str field.
CanFormat(raw_case) ==
    ~IsNone(raw_case.caseNumber) /\ ~IsNone(raw_case.complainantName)

format_case_data(raw_case) ==
    [case_number |-> raw_case.caseNumber[1],
     complainant |-> raw_case.complainantName[1]]

\* Variant: the loop stops at the first record that fails.
RECURSIVE all_cases_until_failure(_)
all_cases_until_failure(cases_data) ==
    IF cases_data = <<>> \/ ~CanFormat(Head(cases_data)) THEN <<>>
    ELSE <<format_case_data(Head(cases_data))>>
             \o all_cases_until_failure(Tail(cases_data))

\* The for loop of _search_cases_by_type: a record that fails is skipped.
all_cases(cases_data) ==
    LET kept == SelectSeq(cases_data, CanFormat)
    IN  [i \in 1..Len(kept) |-> format_case_data(kept[i])]

(***************************************************************************)
(* JagritiClient.  An outcome is what one HTTP attempt meets upstream.     *)
(***************************************************************************)
Response(code) == [kind |-> "response", code |-> code]

Timeout == [kind |-> "timeout", code |-> 0]

ConnectError == [kind |-> "connect_error", code |-> 0]

\* A 200 answer whose body response.json() cannot decode.
BadJson == [kind |-> "bad_json", code |-> 200]

\* A 200 answer whose JSON body is not an object (a list, a string, null).
NonObject == [kind |-> "non_object", code |-> 200]

Transient == {Timeout, ConnectError}

\* httpx.Response.raise_for_status raises for every status outside 2xx.
is_success(code) == 200 <= code /\ code <= 299

\* Variant: the transport failures leave the body as httpx raised them.
make_request_reraise(outcome) ==
    CASE outcome.kind = "timeout"       -> Exception("httpx.TimeoutException", 0, <<>>)
      [] outcome.kind = "connect_error" -> Exception("httpx.ConnectError", 0, <<>>)
      [] outcome.kind = "response" /\ ~is_success(outcome.code)
                                        -> JagritiAPIException(outcome.code)
      [] outcome.kind = "bad_json"      -> JagritiAPIException(500)
      [] outcome.kind = "non_object"    -> JagritiAPIException(500)
      [] OTHER                          -> NoExc

\* Variant: an HTTP error status is reported by the catch-all handler.
make_request_generic(outcome) ==
    CASE outcome.kind = "timeout"       -> APITimeoutException
      [] outcome.kind = "connect_error" -> APIConnectionException
      [] outcome.kind = "response" /\ ~is_success(outcome.code)
                                        -> JagritiAPIException(500)
      [] outcome.kind = "bad_json"      -> JagritiAPIException(500)
      [] outcome.kind = "non_object"    -> JagritiAPIException(500)
      [] OTHER                          -> NoExc

\* The body of _make_request without its logging statements: a decoded body
\* is returned whatever its type.
make_request_unlogged(outcome) ==
    CASE outcome.kind = "timeout"       -> APITimeoutException
      [] outcome.kind = "connect_error" -> APIConnectionException
      [] outcome.kind = "response" /\ ~is_success(outcome.code)
                                        -> JagritiAPIException(outcome.code)
      [] outcome.kind = "bad_json"      -> JagritiAPIException(500)
      [] OTHER                          -> NoExc

\* What the body of _make_request raises for an outcome (NoExc: it returns).
\* result.get('data', []) in the success log line raises AttributeError for
\* a body that is not an object, inside the try block.
make_request(outcome) ==
    CASE outcome.kind = "timeout"       -> APITimeoutException
      [] outcome.kind = "connect_error" -> APIConnectionException
      [] outcome.kind = "response" /\ ~is_success(outcome.code)
                                        -> JagritiAPIException(outcome.code)
      [] outcome.kind = "bad_json"      -> JagritiAPIException(500)
      [] outcome.kind = "non_object"    -> JagritiAPIException(500)
      [] OTHER                          -> NoExc

\* Variant: the retry predicate names the exceptions the body raises.
retry_if_api_exception(exc) ==
    exc.type \in {"APITimeoutException", "APIConnectionException"}

\* retry=retry_if_exception_type((httpx.TimeoutException, httpx.ConnectError))
retry_if_exception_type(exc) ==
    exc.type \in {"httpx.TimeoutException", "httpx.ConnectError"}

\* stop=stop_after_attempt(3)
stop_after_attempt(attempt_number) == attempt_number >= STOP_AFTER_ATTEMPT

NoPayload ==
    [commissionId |-> 0, page |-> 0, size |-> 0, fromDate |-> PyNone,
     toDate |-> PyNone, dateRequestType |-> 0, serchType |-> 0,
     serchTypeValue |-> PyNone, judgeId |-> PyNone]

\* Variant: only the judge search asks for the second date semantics.
search_cases_payload_judge_only(commission_id, search_type, search_value, from_date, to_date, page, size, judge_id) ==
    [commissionId    |-> commission_id,
     page            |-> page,
     size            |-> size,
     fromDate        |-> from_date,
     toDate          |-> to_date,
     dateRequestType |-> IF search_type = 7 THEN 2 ELSE 1,
     serchType       |-> search_type,
     serchTypeValue  |-> search_value,
     judgeId         |-> judge_id]

\* The body of JagritiClient.search_cases.
search_cases_payload(commission_id, search_type, search_value, from_date, to_date, page, size, judge_id) ==
    [commissionId    |-> commission_id,
     page            |-> page,
     size            |-> size,
     fromDate        |-> from_date,
     toDate          |-> to_date,
     dateRequestType |-> IF search_type \in {6, 7} THEN 2 ELSE 1,
     serchType       |-> search_type,
     serchTypeValue  |-> search_value,
     judgeId         |-> judge_id]

ClientCall(fn, arg, payload) == [fn |-> fn, arg |-> arg, payload |-> payload]

NoCall == ClientCall("", 0, NoPayload)

NoData == [shape |-> "list", records |-> <<>>]

ListData(records) == [shape |-> "list", records |-> records]

Lookup(f, k) == IF k \in DOMAIN f THEN f[k] ELSE <<>>

\* The "data" field of upstream's answer to a call.
UpstreamData(u, call) ==
    CASE call.fn = "get_states"     -> ListData(u.states)
      [] call.fn = "get_districts"  -> ListData(Lookup(u.districts, call.arg))
      [] call.fn = "get_categories" -> ListData(u.categories)
      [] call.fn = "get_judges"     -> ListData(Lookup(u.judges, call.arg))
      [] OTHER                      -> u.cases

(***************************************************************************)
(* A request in flight.  pc is the code position at which it resumes,      *)
(* stack the positions its callers resume at; "http" waits for upstream.   *)
(* calls lists the client methods invoked and sent the HTTP requests sent  *)
(* to upstream during the request.                                         *)
(***************************************************************************)
Args(op, state, commission, search_type, search_value, name, id, from_date, to_date) ==
    [op |-> op, state |-> state, commission |-> commission,
     search_type |-> search_type, search_value |-> search_value,
     name |-> name, id |-> id, from_date |-> from_date, to_date |-> to_date,
     page |-> 0, size |-> 30]

NoArgs == Args("", <<>>, <<>>, 0, PyNone, PyNone, PyNone, PyNone, PyNone)

Request(pc, q) ==
    [pc |-> pc, stack |-> <<>>, q |-> q, key |-> 0,
     states |-> None, state |-> None,
     commissions |-> None, commission_id |-> None,
     categories |-> None, category |-> None,
     judges |-> None, judge |-> None, judge_commission_id |-> None,
     search_type |-> 0, search_value |-> PyNone, judge_id |-> PyNone,
     payload |-> NoPayload,
     result |-> None, exc |-> NoExc, status_code |-> 0,
     call |-> NoCall, attempt |-> 0, waits |-> 0,
     script |-> <<>>, resp |-> NoData, cexc |-> NoExc,
     calls |-> <<>>, sent |-> <<>>]

Ret(r) ==
    IF r.stack = <<>> THEN [r EXCEPT !.pc = "done"]
    ELSE [r EXCEPT !.pc = Head(r.stack), !.stack = Tail(r.stack)]

Call(r, label, resume) ==
    [r EXCEPT !.pc = label, !.stack = <<resume>> \o r.stack]

\* No caller catches: the exception reaches the route handler.
Raise(r, e) ==
    [r EXCEPT !.pc = "done", !.stack = <<>>, !.exc = e,
              !.status_code = HTTPException(e)]

\* await jagriti_client.<fn>(...): the request waits for _make_request.
Await(r, call, resume) ==
    [r EXCEPT !.pc = "http", !.stack = <<resume>> \o r.stack,
              !.call = call, !.attempt = 0, !.waits = 0, !.script = <<>>,
              !.resp = NoData, !.cexc = NoExc,
              !.calls = Append(@, call.fn)]

RC(r, c) == [r |-> r, c |-> c]

(***************************************************************************)
(* MapperService, one operator per stretch of code between two awaits.     *)
(***************************************************************************)
step_get_all_states(r, c, time) ==
    IF is_states_valid(c, CACHE_TTL_STATES, time) /\ Truthy(get_states(c))
    THEN RC(Ret([r EXCEPT !.states = get_states(c)]), c)
    ELSE RC(Await(r, ClientCall("get_states", 0, NoPayload), "states_fetched"), c)

\* Variant: the cache is written record by record, so the records formatted
\* before the one that fails are stored.
step_states_fetched_partial(r, c, time) ==
    IF r.cexc /= NoExc THEN RC(Raise(r, r.cexc), c)
    ELSE IF RegionsRaise(r.resp.records)
    THEN LET first == CHOOSE i \in 1..Len(r.resp.records) :
                          /\ RegionRaises(r.resp.records[i])
                          /\ \A j \in 1..(i - 1) : ~RegionRaises(r.resp.records[j])
         IN  RC(Raise(r, KeyError),
                set_states(c, filtered_states(SubSeq(r.resp.records, 1, first - 1)), time))
    ELSE LET filtered == filtered_states(r.resp.records)
         IN  RC(Ret([r EXCEPT !.states = Some(filtered), !.resp = NoData]),
                set_states(c, filtered, time))

step_states_fetched(r, c, time) ==
    IF r.cexc /= NoExc THEN RC(Raise(r, r.cexc), c)
    ELSE IF RegionsRaise(r.resp.records) THEN RC(Raise(r, KeyError), c)
    ELSE LET filtered == filtered_states(r.resp.records)
         IN  RC(Ret([r EXCEPT !.states = Some(filtered), !.resp = NoData]),
                set_states(c, filtered, time))

step_find_state_by_name(r, c, time) ==
    RC(Call([r EXCEPT !.states = None, !.state = None],
            "get_all_states", "find_state_scan"), c)

step_find_state_scan(r, c, time) ==
    LET i == find_state_by_name(r.q.state, r.states[1])
    IN  IF i > 0 THEN RC(Ret([r EXCEPT !.state = Some(r.states[1][i])]), c)
        ELSE RC(Raise(r, StateNotFoundException(r.q.state)), c)

\* Variant: an empty cached list is taken for a miss, as for states.
step_get_commissions_truthy(r, c, time) ==
    LET cached_data == get_commissions(c, r.key, time)
        c1 == get_commissions_cache(c, r.key, time)
    IN  IF Truthy(cached_data)
        THEN RC(Ret([r EXCEPT !.commissions = cached_data]), c1)
        ELSE RC(Await(r, ClientCall("get_districts", r.key, NoPayload),
                      "commissions_fetched"), c1)

step_get_commissions_by_state(r, c, time) ==
    LET cached_data == get_commissions(c, r.key, time)
        c1 == get_commissions_cache(c, r.key, time)
    IN  IF ~IsNone(cached_data)
        THEN RC(Ret([r EXCEPT !.commissions = cached_data]), c1)
        ELSE RC(Await(r, ClientCall("get_districts", r.key, NoPayload),
                      "commissions_fetched"), c1)

step_commissions_fetched(r, c, time) ==
    IF r.cexc /= NoExc THEN RC(Raise(r, r.cexc), c)
    ELSE IF RegionsRaise(r.resp.records) THEN RC(Raise(r, KeyError), c)
    ELSE LET formatted == formatted_districts(r.resp.records)
         IN  RC(Ret([r EXCEPT !.commissions = Some(formatted), !.resp = NoData]),
                set_commissions(c, r.key, formatted, time))

step_find_commission_by_name(r, c, time) ==
    RC(Call([r EXCEPT !.commissions = None, !.commission_id = None],
            "find_state_by_name", "commission_state_resolved"), c)

step_commission_state_resolved(r, c, time) ==
    RC(Call([r EXCEPT !.key = r.state[1].commission_id],
            "get_commissions_by_state", "commission_select"), c)

\* Variant: no state-level fallback when the state has no commissions.
step_commission_select_strict(r, c, time) ==
    LET commissions == r.commissions[1]
        matches  == commission_matches(r.q.commission, commissions)
    IN  IF matches /= <<>>
        THEN RC(Ret([r EXCEPT !.commission_id =
                        Some(sort_by_circuit(matches)[1].commission_id)]), c)
        ELSE RC(Raise(r, CommissionNotFoundException(
                    <<r.q.commission, r.q.state>>
                        \o available_commissions(commissions))), c)

step_commission_select(r, c, time) ==
    LET state_id == r.state[1].commission_id
        commissions == r.commissions[1]
        matches  == commission_matches(r.q.commission, commissions)
    IN  IF commissions = <<>>
        THEN RC(Ret([r EXCEPT !.commission_id = Some(state_id)]), c)
        ELSE IF matches /= <<>>
        THEN RC(Ret([r EXCEPT !.commission_id =
                        Some(sort_by_circuit(matches)[1].commission_id)]), c)
        ELSE RC(Raise(r, CommissionNotFoundException(
                    <<r.q.commission, r.q.state>>
                        \o available_commissions(commissions))), c)

step_get_all_categories(r, c, time) ==
    IF is_categories_valid(c, CACHE_TTL_CATEGORIES, time) /\ Truthy(get_categories(c))
    THEN RC(Ret([r EXCEPT !.categories = get_categories(c)]), c)
    ELSE RC(Await(r, ClientCall("get_categories", 0, NoPayload),
                  "categories_fetched"), c)

step_categories_fetched(r, c, time) ==
    IF r.cexc /= NoExc THEN RC(Raise(r, r.cexc), c)
    ELSE IF CategoriesRaise(r.resp.records) THEN RC(Raise(r, KeyError), c)
    ELSE LET formatted == formatted_categories(r.resp.records)
         IN  RC(Ret([r EXCEPT !.categories = Some(formatted), !.resp = NoData]),
                set_categories(c, formatted, time))

step_find_category_by_name(r, c, time) ==
    RC(Call([r EXCEPT !.categories = None, !.category = None],
            "get_all_categories", "find_category_scan"), c)

step_find_category_scan(r, c, time) ==
    LET i == find_category_by_name(r.q.name.s, r.categories[1])
    IN  IF i > 0 THEN RC(Ret([r EXCEPT !.category = Some(r.categories[1][i])]), c)
        ELSE RC(Raise(r, CategoryNotFoundException(r.q.name.s)), c)

step_get_judges_by_commission(r, c, time) ==
    LET cached_data == get_judges(c, r.key, time)
        c1 == get_judges_cache(c, r.key, time)
    IN  IF ~IsNone(cached_data)
        THEN RC(Ret([r EXCEPT !.judges = cached_data]), c1)
        ELSE RC(Await(r, ClientCall("get_judges", r.key, NoPayload),
                      "judges_fetched"), c1)

step_judges_fetched(r, c, time) ==
    IF r.cexc /= NoExc THEN RC(Raise(r, r.cexc), c)
    ELSE IF JudgesRaise(r.resp.records) THEN RC(Raise(r, KeyError), c)
    ELSE LET formatted == formatted_judges(r.resp.records, r.key)
         IN  RC(Ret([r EXCEPT !.judges = Some(formatted), !.resp = NoData]),
                set_judges(c, r.key, formatted, time))

step_find_judge_by_name(r, c, time) ==
    RC(Call([r EXCEPT !.judges = None, !.judge = None],
            "get_judges_by_commission", "find_judge_scan"), c)

step_find_judge_scan(r, c, time) ==
    LET i == find_judge_by_name(r.q.name.s, r.judges[1])
    IN  IF i > 0 THEN RC(Ret([r EXCEPT !.judge = Some(r.judges[1][i])]), c)
        ELSE RC(Raise(r, JudgeNotFoundException(r.q.name.s)), c)

(***************************************************************************)
(* CaseService.                                                            *)
(***************************************************************************)
step_search_cases_by_type(r, c, time) ==
    RC(Call(r, "find_commission_by_name", "search_commission_resolved"), c)

\* Variant: each missing date gets its default, a supplied one is kept.
step_search_commission_resolved_each(r, c, time) ==
    LET from_date == IF ~PyTruthy(r.q.from_date)
                     THEN get_default_date_range(time)[1] ELSE r.q.from_date
        to_date   == IF ~PyTruthy(r.q.to_date)
                     THEN get_default_date_range(time)[2] ELSE r.q.to_date
        payload == search_cases_payload(r.commission_id[1], r.search_type,
                       r.search_value, from_date, to_date, r.q.page, r.q.size,
                       r.judge_id)
    IN  RC(Await([r EXCEPT !.payload = payload],
                 ClientCall("search_cases", 0, payload), "search_response"), c)

step_search_commission_resolved(r, c, time) ==
    LET dflt  == ~PyTruthy(r.q.from_date) \/ ~PyTruthy(r.q.to_date)
        from_date == IF dflt THEN get_default_date_range(time)[1] ELSE r.q.from_date
        to_date   == IF dflt THEN get_default_date_range(time)[2] ELSE r.q.to_date
        payload == search_cases_payload(r.commission_id[1], r.search_type,
                       r.search_value, from_date, to_date, r.q.page, r.q.size,
                       r.judge_id)
    IN  RC(Await([r EXCEPT !.payload = payload],
                 ClientCall("search_cases", 0, payload), "search_response"), c)

\* JSON values whose type the code inspects.
JList(items) == [t |-> "list", v |-> items]

JDict(fields) == [t |-> "dict", v |-> fields]

JNull == [t |-> "NoneType", v |-> <<>>]

AttributeError == Exception("AttributeError", 0, <<>>)

TypeError == Exception("TypeError", 0, <<>>)

\* The JSON body upstream answers a case search with.
ResponseBody(d) ==
    CASE d.shape = "list"         -> [data |-> JList(d.records)]
      [] d.shape = "page"         -> [data |-> JDict([content |-> JList(d.records)])]
      [] d.shape = "no_content"   -> [data |-> JDict([totalElements |-> 0])]
      [] d.shape = "null_content" -> [data |-> JDict([content |-> JNull])]
      [] d.shape = "null_data"    -> [data |-> JNull]
      [] OTHER                    -> [message |-> "OK"]

\* dict.get(key, default)
DictGet(fields, key, default) == IF key \in DOMAIN fields THEN fields[key] ELSE default

Extracted(e, value) == [exc |-> e, value |-> value]

\* Variant: only a bare list is read; any other data counts as no records.
ExtractCases_list_only(response) ==
    LET data == DictGet(response, "data", JList(<<>>))
    IN  IF data.t = "list" THEN Extracted(NoExc, data)
        ELSE Extracted(NoExc, JList(<<>>))

\* data = response.get("data", [])
\* cases_data = data if isinstance(data, list) else data.get("content", [])
\* len(cases_data)
ExtractCases(response) ==
    LET data == DictGet(response, "data", JList(<<>>))
    IN  IF data.t = "list" THEN Extracted(NoExc, data)
        ELSE IF data.t /= "dict" THEN Extracted(AttributeError, JNull)
        ELSE LET cases_data == DictGet(data.v, "content", JList(<<>>))
             IN  IF cases_data.t = "list" THEN Extracted(NoExc, cases_data)
                 ELSE Extracted(TypeError, JNull)

\* Variant: the formatted cases are stored in the search-result cache.
step_search_response_stored(r, c, time) ==
    IF r.cexc /= NoExc THEN RC(Raise(r, r.cexc), c)
    ELSE LET x == ExtractCases(ResponseBody(r.resp))
         IN  IF x.exc /= NoExc THEN RC(Raise(r, x.exc), c)
             ELSE RC(Ret([r EXCEPT !.result = Some(all_cases(x.value.v)),
                                   !.resp = NoData]),
                     set_cases(c, all_cases(x.value.v),
                               <<<<"page", PyInt(r.q.page)>>>>, time))

\* Variant: a search call that fails is issued again.
step_search_response_reissued(r, c, time) ==
    IF r.cexc /= NoExc THEN RC(Await(r, r.call, "search_response"), c)
    ELSE LET x == ExtractCases(ResponseBody(r.resp))
         IN  IF x.exc /= NoExc THEN RC(Raise(r, x.exc), c)
             ELSE RC(Ret([r EXCEPT !.result = Some(all_cases(x.value.v)),
                                   !.resp = NoData]), c)

\* Variant: a judge search that finds no case reports the judge as not found.
step_search_response_judge_checked(r, c, time) ==
    IF r.cexc /= NoExc THEN RC(Raise(r, r.cexc), c)
    ELSE LET x == ExtractCases(ResponseBody(r.resp))
         IN  IF x.exc /= NoExc THEN RC(Raise(r, x.exc), c)
             ELSE IF r.search_type = 7 /\ all_cases(x.value.v) = <<>>
             THEN RC(Raise(r, JudgeNotFoundException(r.q.name.s)), c)
             ELSE RC(Ret([r EXCEPT !.result = Some(all_cases(x.value.v)),
                                   !.resp = NoData]), c)

step_search_response(r, c, time) ==
    IF r.cexc /= NoExc THEN RC(Raise(r, r.cexc), c)
    ELSE LET x == ExtractCases(ResponseBody(r.resp))
         IN  IF x.exc /= NoExc THEN RC(Raise(r, x.exc), c)
             ELSE RC(Ret([r EXCEPT !.result = Some(all_cases(x.value.v)),
                                   !.resp = NoData]), c)

\* search_by_case_number ... search_by_respondent_advocate (search_type 1..5)
step_search_by_text(r, c, time) ==
    RC([r EXCEPT !.pc = "search_cases_by_type",
                 !.search_value = r.q.search_value,
                 !.search_type = r.q.search_type,
                 !.judge_id = PyStr(<<>>)], c)

step_search_by_industry_type(r, c, time) ==
    LET search_value == PyOr(r.q.id, r.q.name)
    IN  IF PyTruthy(r.q.name) /\ ~PyTruthy(r.q.id)
        THEN RC(Call([r EXCEPT !.search_value = search_value],
                     "find_category_by_name", "industry_category_resolved"), c)
        ELSE RC([r EXCEPT !.pc = "industry_search",
                          !.search_value = search_value], c)

step_industry_category_resolved(r, c, time) ==
    RC([r EXCEPT !.pc = "industry_search",
                 !.search_value = Str(PyInt(r.category[1].category_id))], c)

step_industry_search(r, c, time) ==
    RC([r EXCEPT !.pc = "search_cases_by_type",
                 !.search_value = Str(r.search_value),
                 !.search_type = 6,
                 !.judge_id = PyStr(<<>>)], c)

\* Variant: a judge search given neither a name nor an id is refused.
step_search_by_judge_required(r, c, time) ==
    IF r.q.name = PyNone /\ r.q.id = PyNone
    THEN RC(Raise(r, Exception("InvalidSearchTypeException", 400, <<>>)), c)
    ELSE IF PyTruthy(r.q.name) /\ ~PyTruthy(r.q.id)
    THEN RC(Call([r EXCEPT !.judge_id = r.q.id],
                 "find_commission_by_name", "judge_commission_resolved"), c)
    ELSE RC([r EXCEPT !.pc = "judge_search", !.judge_id = r.q.id], c)

step_search_by_judge(r, c, time) ==
    IF PyTruthy(r.q.name) /\ ~PyTruthy(r.q.id)
    THEN RC(Call([r EXCEPT !.judge_id = r.q.id],
                 "find_commission_by_name", "judge_commission_resolved"), c)
    ELSE RC([r EXCEPT !.pc = "judge_search", !.judge_id = r.q.id], c)

step_judge_commission_resolved(r, c, time) ==
    RC(Call([r EXCEPT !.key = r.commission_id[1],
                      !.judge_commission_id = r.commission_id],
            "find_judge_by_name", "judge_resolved"), c)

step_judge_resolved(r, c, time) ==
    RC([r EXCEPT !.pc = "judge_search",
                 !.judge_id = PyInt(r.judge[1].judge_id)], c)

\* Variant: the judge id travels as the search value.
step_judge_search_by_value(r, c, time) ==
    RC([r EXCEPT !.pc = "search_cases_by_type",
                 !.search_value = Str(r.judge_id),
                 !.search_type = 7,
                 !.judge_id = PyStr(<<>>)], c)

step_judge_search(r, c, time) ==
    RC([r EXCEPT !.pc = "search_cases_by_type",
                 !.search_value = PyStr(<<>>),
                 !.search_type = 7,
                 !.judge_id = Str(r.judge_id)], c)

(***************************************************************************)
(* Route handlers of the four list endpoints.                              *)
(***************************************************************************)
step_route_get_states(r, c, time) ==
    RC(Call(r, "get_all_states", "return_states"), c)

step_return_states(r, c, time) ==
    RC(Ret([r EXCEPT !.result = r.states]), c)

step_route_get_commissions(r, c, time) ==
    RC(Call([r EXCEPT !.key = r.q.id.i],
            "get_commissions_by_state", "return_commissions"), c)

step_return_commissions(r, c, time) ==
    RC(Ret([r EXCEPT !.result = r.commissions]), c)

step_route_get_categories(r, c, time) ==
    RC(Call(r, "get_all_categories", "return_categories"), c)

step_return_categories(r, c, time) ==
    RC(Ret([r EXCEPT !.result = r.categories]), c)

step_route_get_judges(r, c, time) ==
    RC(Call([r EXCEPT !.key = r.q.id.i],
            "get_judges_by_commission", "return_judges"), c)

step_return_judges(r, c, time) ==
    RC(Ret([r EXCEPT !.result = r.judges]), c)

\* The code at position r.pc, run up to its next await, call or return.
Exec(r, c, time) ==
    CASE r.pc = "get_all_states"             -> step_get_all_states(r, c, time)
      [] r.pc = "states_fetched"             -> step_states_fetched(r, c, time)
      [] r.pc = "find_state_by_name"         -> step_find_state_by_name(r, c, time)
      [] r.pc = "find_state_scan"            -> step_find_state_scan(r, c, time)
      [] r.pc = "get_commissions_by_state"   -> step_get_commissions_by_state(r, c, time)
      [] r.pc = "commissions_fetched"        -> step_commissions_fetched(r, c, time)
      [] r.pc = "find_commission_by_name"    -> step_find_commission_by_name(r, c, time)
      [] r.pc = "commission_state_resolved"  -> step_commission_state_resolved(r, c, time)
      [] r.pc = "commission_select"          -> step_commission_select(r, c, time)
      [] r.pc = "get_all_categories"         -> step_get_all_categories(r, c, time)
      [] r.pc = "categories_fetched"         -> step_categories_fetched(r, c, time)
      [] r.pc = "find_category_by_name"      -> step_find_category_by_name(r, c, time)
      [] r.pc = "find_category_scan"         -> step_find_category_scan(r, c, time)
      [] r.pc = "get_judges_by_commission"   -> step_get_judges_by_commission(r, c, time)
      [] r.pc = "judges_fetched"             -> step_judges_fetched(r, c, time)
      [] r.pc = "find_judge_by_name"         -> step_find_judge_by_name(r, c, time)
      [] r.pc = "find_judge_scan"            -> step_find_judge_scan(r, c, time)
      [] r.pc = "search_cases_by_type"       -> step_search_cases_by_type(r, c, time)
      [] r.pc = "search_commission_resolved" -> step_search_commission_resolved(r, c, time)
      [] r.pc = "search_response"            -> step_search_response(r, c, time)
      [] r.pc = "search_by_text"             -> step_search_by_text(r, c, time)
      [] r.pc = "search_by_industry_type"    -> step_search_by_industry_type(r, c, time)
      [] r.pc = "industry_category_resolved" -> step_industry_category_resolved(r, c, time)
      [] r.pc = "industry_search"            -> step_industry_search(r, c, time)
      [] r.pc = "search_by_judge"            -> step_search_by_judge(r, c, time)
      [] r.pc = "judge_commission_resolved"  -> step_judge_commission_resolved(r, c, time)
      [] r.pc = "judge_resolved"             -> step_judge_resolved(r, c, time)
      [] r.pc = "judge_search"               -> step_judge_search(r, c, time)
      [] r.pc = "route_get_states"           -> step_route_get_states(r, c, time)
      [] r.pc = "return_states"              -> step_return_states(r, c, time)
      [] r.pc = "route_get_commissions"      -> step_route_get_commissions(r, c, time)
      [] r.pc = "return_commissions"         -> step_return_commissions(r, c, time)
      [] r.pc = "route_get_categories"       -> step_route_get_categories(r, c, time)
      [] r.pc = "return_categories"          -> step_return_categories(r, c, time)
      [] r.pc = "route_get_judges"           -> step_route_get_judges(r, c, time)
      [] r.pc = "return_judges"              -> step_return_judges(r, c, time)
      [] OTHER                               -> RC(r, c)

Waiting == {"off", "idle", "http", "done"}

\* A coroutine runs without interruption until it awaits upstream or ends.
RECURSIVE Run(_, _, _)
Run(r, c, time) ==
    IF r.pc \in Waiting THEN RC(r, c)
    ELSE LET x == Exec(r, c, time) IN Run(x.r, x.c, time)

(***************************************************************************)
(* Upstream data.                                                          *)
(***************************************************************************)
nX == <<"X">>

nXY == <<"X", " ", "(", "Y", ")">>

sx == <<"x">>

sxy == <<"x", "y">>

sq == <<"q">>

SearchNames == {sx, sxy, sq}

RawCase(number, complainant) ==
    [caseNumber |-> number, complainantName |-> complainant]

Cases3 ==
    <<RawCase(Some("DC/1"), Some("A")), RawCase(None, Some("B")),
      RawCase(Some("DC/3"), Some("C"))>>

\* Two-tier state 1 with a circuit bench listed first; single-tier state 2.
World1 ==
    [states     |-> <<RawRegion(1, nX, FALSE, TRUE), RawRegion(2, nXY, FALSE, TRUE)>>,
     districts  |-> (1 :> <<RawRegion(11, nXY, TRUE, TRUE),
                            RawRegion(12, nX, FALSE, TRUE),
                            RawRegion(13, nXY, FALSE, FALSE)>>
                     @@ 2 :> <<>>),
     categories |-> <<RawCategory(31, nX), RawCategory(32, nXY)>>,
     judges     |-> (11 :> <<RawJudge(23, nXY)>>
                     @@ 12 :> <<RawJudge(21, nX), RawJudge(22, nXY)>>
                     @@ 2 :> <<>>),
     cases      |-> [shape |-> "list", records |-> Cases3]]

\* An inactive state listed first; only circuit benches; duplicate names.
World2 ==
    [states     |-> <<RawRegion(1, nX, FALSE, FALSE), RawRegion(2, nX, FALSE, TRUE)>>,
     districts  |-> (2 :> <<RawRegion(11, nX, TRUE, TRUE),
                            RawRegion(12, nX, TRUE, TRUE)>>),
     categories |-> <<>>,
     judges     |-> (11 :> <<RawJudge(21, nX), RawJudge(22, nX)>>),
     cases      |-> [shape |-> "page", records |-> <<>>]]

\* Upstream lists nothing.
World0 ==
    [states     |-> <<>>,
     districts  |-> (1 :> <<>>),
     categories |-> <<>>,
     judges     |-> (1 :> <<>>),
     cases      |-> [shape |-> "list", records |-> <<>>]]

Worlds == {World0, World1, World2}

(***************************************************************************)
(* Actions.                                                                *)
(***************************************************************************)
Procs == {1}

\* A route handler is entered: the request runs up to its first await.
Start(p, q) ==
    /\ req[p].pc = "idle"
    /\ LET x == Run(Request(q.op, q), cache, now)
       IN  /\ req' = [req EXCEPT ![p] = x.r]
           /\ cache' = x.c
    /\ UNCHANGED <<now, upstream>>

\* One HTTP attempt of _make_request completes, and the retry decorator
\* either sleeps for another attempt or lets the awaiting code resume.
\* script is what upstream would meet attempts 1, 2, 3 of this call with.
HttpAttempt(p, scripts) ==
    /\ req[p].pc = "http"
    /\ \E s \in scripts :
         LET r       == req[p]
             script  == IF r.attempt = 0 THEN s ELSE r.script
             n       == r.attempt + 1
             outcome == script[n]
             e       == make_request(outcome)
             r1      == [r EXCEPT !.attempt = n, !.script = script,
                                  !.sent = Append(@, r.call.fn)]
         IN  IF e /= NoExc /\ retry_if_exception_type(e) /\ ~stop_after_attempt(n)
             THEN /\ req' = [req EXCEPT ![p] = [r1 EXCEPT !.waits = @ + 1]]
                  /\ cache' = cache
             ELSE LET raised == IF e = NoExc THEN NoExc
                                ELSE IF retry_if_exception_type(e) THEN RetryError
                                ELSE e
                      r2 == [r1 EXCEPT !.pc = Head(r.stack), !.stack = Tail(r.stack),
                                       !.cexc = raised,
                                       !.resp = IF e = NoExc
                                                THEN UpstreamData(upstream, r.call)
                                                ELSE NoData]
                      x  == Run(r2, cache, now)
                  IN  /\ req' = [req EXCEPT ![p] = x.r]
                      /\ cache' = x.c
    /\ UNCHANGED <<now, upstream>>

\* The route handler hands the result or the error to the caller and ends.
Finish(p) ==
    /\ req[p].pc = "done"
    /\ req' = [req EXCEPT ![p] = Request("idle", NoArgs)]
    /\ UNCHANGED <<now, cache, upstream>>

\* POST /admin/cache/clear
ClearAll ==
    /\ cache' = clear_all(cache)
    /\ UNCHANGED <<now, upstream, req>>

\* GET /admin/cache/stats, GET /health
GetStats ==
    /\ \E purge \in BOOLEAN : cache' = get_stats_cache(cache, now, purge)
    /\ UNCHANGED <<now, upstream, req>>

\* The clock advances; ticks are one commissions TTL long.
TickStep == COMMISSIONS_TTL

Tick(max_ticks) ==
    /\ now < max_ticks * TickStep
    /\ now' = now + TickStep
    /\ UNCHANGED <<cache, upstream, req>>

\* Upstream publishes other data.
Republish(worlds) ==
    /\ upstream' \in worlds \ {upstream}
    /\ UNCHANGED <<now, cache, req>>

(***************************************************************************)
(* Inputs.                                                                 *)
(***************************************************************************)
Ok == Response(200)

Outcomes == {Ok, Response(404), Response(503), Timeout, ConnectError}

AllScripts == [1..STOP_AFTER_ATTEMPT -> Outcomes]

Scripts ==
    {<<Ok, Ok, Ok>>, <<Timeout, Timeout, Ok>>, <<Response(404), Ok, Ok>>,
     <<ConnectError, ConnectError, ConnectError>>}

Names == {PyNone} \cup {PyStr(n) : n \in {sx, sq}}

Ids == {PyNone, PyInt(31)}

\* Every (state, commission) pair by case number; the other text kinds once.
TextSearches ==
    {Args("search_by_text", st, cm, 1, PyStr(<<"v">>), PyNone, PyNone, PyNone, PyNone) :
        st \in SearchNames, cm \in SearchNames}
    \cup
    {Args("search_by_text", sx, sx, k, PyStr(<<"v">>), PyNone, PyNone, PyNone, PyNone) :
        k \in 2..5}

IndustrySearches ==
    {Args("search_by_industry_type", x[1][1], x[1][2], 6, PyNone, x[2], x[3], PyNone, PyNone) :
        x \in {<<sx, sx>>, <<sq, sx>>} \X Names \X Ids}

JudgeSearches ==
    {Args("search_by_judge", x[1][1], x[1][2], 7, PyNone, x[2], x[3], PyNone, PyNone) :
        x \in {<<sx, sx>>, <<sxy, sx>>, <<sx, sq>>} \X Names \X Ids}

SearchReqs == TextSearches \cup IndustrySearches \cup JudgeSearches

MaxSearchTicks == 1

(***************************************************************************)
(* Specification of the search endpoints.                                  *)
(***************************************************************************)
Init ==
    /\ now = 0
    /\ cache = CacheInit
    /\ upstream \in Worlds
    /\ req = [p \in Procs |-> Request("idle", NoArgs)]

Next ==
    \/ \E p \in Procs : \E q \in SearchReqs : Start(p, q)
    \/ \E p \in Procs : HttpAttempt(p, Scripts)
    \/ \E p \in Procs : Finish(p)
    \/ ClearAll
    \/ Tick(MaxSearchTicks)

Spec == Init /\ [][Next]_vars

(***************************************************************************)
(* Specification of the client: the list endpoints against every way       *)
(* upstream can meet the three attempts of a call.                         *)
(***************************************************************************)
ListReqs ==
    {Args("route_get_states", <<>>, <<>>, 0, PyNone, PyNone, PyNone, PyNone, PyNone),
     Args("route_get_categories", <<>>, <<>>, 0, PyNone, PyNone, PyNone, PyNone, PyNone)}
    \cup
    {Args("route_get_commissions", <<>>, <<>>, 0, PyNone, PyNone, PyInt(id), PyNone, PyNone) :
        id \in {1, 2}}
    \cup
    {Args("route_get_judges", <<>>, <<>>, 0, PyNone, PyNone, PyInt(id), PyNone, PyNone) :
        id \in {11, 12}}

NextClient ==
    \/ \E p \in Procs : \E q \in ListReqs : Start(p, q)
    \/ \E p \in Procs : HttpAttempt(p, AllScripts)
    \/ \E p \in Procs : Finish(p)
    \/ ClearAll

SpecClient == Init /\ [][NextClient]_vars

(***************************************************************************)
(* Specification of the caches: the list endpoints as the clock advances.  *)
(***************************************************************************)
MaxTicks == 4

\* One request per kind of list.
CacheReqs == {q \in ListReqs : q.id \in {PyNone, PyInt(2), PyInt(11)}}

NextCache ==
    \/ \E p \in Procs : \E q \in CacheReqs : Start(p, q)
    \/ \E p \in Procs : HttpAttempt(p, {<<Ok, Ok, Ok>>, <<Timeout, Ok, Ok>>})
    \/ \E p \in Procs : Finish(p)
    \/ ClearAll
    \/ Tick(MaxTicks)

SpecCache == Init /\ [][NextCache]_vars

(***************************************************************************)
(* Specification of name resolution: searches against every upstream list  *)
(* of at most MaxLen entries, one kind of list varying at a time.          *)
(***************************************************************************)
MaxLen == 2

SeqsUpTo(S, n) == UNION {[1..k -> S] : k \in 0..n}

RegionPool == {nX, nXY} \X BOOLEAN \X BOOLEAN

Regions(base, list) ==
    [i \in 1..Len(list) |-> RawRegion(base + i, list[i][1], list[i][2], list[i][3])]

NamePool == {nX, nXY}

BaseWorld ==
    [states     |-> <<RawRegion(1, nX, FALSE, TRUE)>>,
     districts  |-> (1 :> <<RawRegion(11, nX, FALSE, TRUE)>>),
     categories |-> <<RawCategory(31, nX)>>,
     judges     |-> (11 :> <<RawJudge(21, nX)>>),
     cases      |-> [shape |-> "list", records |-> Cases3]]

CasePool ==
    {RawCase(Some("DC/1"), Some("A")), RawCase(Some("DC/2"), Some("B")),
     RawCase(None, Some("C")), RawCase(Some("DC/4"), None)}

ResolveWorlds ==
    {[BaseWorld EXCEPT !.states = Regions(0, l)] : l \in SeqsUpTo(RegionPool, MaxLen)}
    \cup
    {[BaseWorld EXCEPT !.districts = (1 :> Regions(10, l))] :
        l \in SeqsUpTo(RegionPool, MaxLen)}
    \cup
    {[BaseWorld EXCEPT !.categories = [i \in 1..Len(l) |-> RawCategory(30 + i, l[i])]] :
        l \in SeqsUpTo(NamePool, MaxLen)}
    \cup
    {[BaseWorld EXCEPT !.judges = (11 :> [i \in 1..Len(l) |-> RawJudge(20 + i, l[i])])] :
        l \in SeqsUpTo(NamePool, MaxLen)}
    \cup
    {[BaseWorld EXCEPT !.cases = [shape |-> "list", records |-> l]] :
        l \in SeqsUpTo(CasePool, MaxLen)}

ResolveReqs ==
    {Args("search_by_text", st, cm, 1, PyStr(<<"v">>), PyNone, PyNone, PyNone, PyNone) :
        st \in {sx, sxy}, cm \in SearchNames}
    \cup
    {Args("search_by_industry_type", sx, sx, 6, PyNone, PyStr(n), PyNone, PyNone, PyNone) :
        n \in SearchNames}
    \cup
    {Args("search_by_judge", sx, sx, 7, PyNone, PyStr(n), PyNone, PyNone, PyNone) :
        n \in SearchNames}

InitResolve ==
    /\ now = 0
    /\ cache = CacheInit
    /\ upstream \in ResolveWorlds
    /\ req = [p \in Procs |-> Request("idle", NoArgs)]

NextResolve ==
    \/ \E p \in Procs : \E q \in ResolveReqs : Start(p, q)
    \/ \E p \in Procs : HttpAttempt(p, {<<Ok, Ok, Ok>>})
    \/ \E p \in Procs : Finish(p)

SpecResolve == InitResolve /\ [][NextResolve]_vars

(***************************************************************************)
(* Specification of the search payload: every search entry point with and  *)
(* without dates and paging, on a clock that starts in the last hours of   *)
(* a year.                                                                 *)
(***************************************************************************)
Date(text) == PyStr(<<text>>)

\* validate_date_format lets through None and ISO dates.
DatePairs ==
    {<<PyNone, PyNone>>, <<Date("2024-02-01"), Date("2024-03-31")>>,
     <<Date("2024-02-01"), PyNone>>, <<PyNone, Date("2024-03-31")>>}

Paging == {<<0, 30>>, <<2, 10>>}

WithDatesAndPaging(q, d, pg) ==
    [q EXCEPT !.from_date = d[1], !.to_date = d[2], !.page = pg[1], !.size = pg[2]]

NameOrId(id) == {<<PyStr(sx), PyNone>>, <<PyNone, PyInt(id)>>, <<PyStr(sx), PyInt(id)>>}

PayloadReqs ==
    {WithDatesAndPaging(
         Args("search_by_text", sx, sx, k, PyStr(<<"v">>), PyNone, PyNone, PyNone, PyNone),
         d, pg) : k \in 1..5, d \in DatePairs, pg \in Paging}
    \cup
    {WithDatesAndPaging(
         Args("search_by_industry_type", sx, sx, 6, PyNone, x[1], x[2], PyNone, PyNone),
         d, pg) : x \in NameOrId(31), d \in DatePairs, pg \in Paging}
    \cup
    {WithDatesAndPaging(
         Args("search_by_judge", sx, sx, 7, PyNone, x[1], x[2], PyNone, PyNone),
         d, pg) : x \in NameOrId(21), d \in DatePairs, pg \in Paging}

\* The last tick of the year StartYear.
YearEndTick == SecondsPerYear \div TickStep - 1

InitPayload ==
    /\ now = YearEndTick * TickStep
    /\ cache = CacheInit
    /\ upstream \in {World1, World2}
    /\ req = [p \in Procs |-> Request("idle", NoArgs)]

NextPayload ==
    \/ \E p \in Procs : \E q \in PayloadReqs : Start(p, q)
    \/ \E p \in Procs : HttpAttempt(p, {<<Ok, Ok, Ok>>})
    \/ \E p \in Procs : Finish(p)
    \/ Tick(YearEndTick + MaxSearchTicks)

SpecPayload == InitPayload /\ [][NextPayload]_vars

(***************************************************************************)
(* Specification of name matching: every state name of at most MaxText     *)
(* characters searched against every upstream state name of at most two.   *)
(***************************************************************************)
MaxText == 3

Alphabet == {"x", "X", "y", " ", "(", TAB}

SearchTexts == SeqsUpTo(Alphabet, MaxText)

TargetTexts == SeqsUpTo({"X", "y", " ", "("}, 2)

TextWorlds ==
    {[BaseWorld EXCEPT !.states = <<RawRegion(1, t, FALSE, TRUE)>>] :
        t \in TargetTexts}

\* IndustryTypeSearchRequest does not strip the state name.
TextReqs ==
    {Args("search_by_industry_type", s, sx, 6, PyNone, PyNone, PyInt(31), PyNone, PyNone) :
        s \in SearchTexts}

InitText ==
    /\ now = 0
    /\ cache = CacheInit
    /\ upstream \in TextWorlds
    /\ req = [p \in Procs |-> Request("idle", NoArgs)]

NextText ==
    \/ \E p \in Procs : \E q \in TextReqs : Start(p, q)
    \/ \E p \in Procs : HttpAttempt(p, {<<Ok, Ok, Ok>>})
    \/ \E p \in Procs : Finish(p)

SpecText == InitText /\ [][NextText]_vars

(***************************************************************************)
(* Specification of the case-result cache: results stored and read under   *)
(* every parameter list of the pool, in every order of its parameters.     *)
(***************************************************************************)
MaxCases == 2

ParamValues == {PyInt(1), PyStr(<<"x">>)}

\* Keyword arguments: distinct names, in any order.
KwargsPool ==
    {<<>>}
    \cup {<<<<n, v>>>> : n \in Range(SortedNames), v \in ParamValues}
    \cup {<<<<"page", v>>, <<"state", w>>>> : v \in ParamValues, w \in ParamValues}
    \cup {<<<<"state", w>>, <<"page", v>>>> : v \in ParamValues, w \in ParamValues}

CaseResults == {<<"r1">>, <<"r2">>}

\* cache.set_cases(data, **kwargs)
SetCases(kwargs, data) ==
    /\ Len(cache.cases_cache) < MaxCases
    /\ cache' = set_cases(cache, data, kwargs, now)
    /\ UNCHANGED <<now, upstream, req>>

\* cache.get_cases(**kwargs): a hit makes the entry the most recently used.
GetCases(kwargs) ==
    /\ cache' = get_cases_cache(cache, kwargs, now)
    /\ UNCHANGED <<now, upstream, req>>

NextCases ==
    \/ \E kwargs \in KwargsPool : \E data \in CaseResults : SetCases(kwargs, data)
    \/ \E kwargs \in KwargsPool : GetCases(kwargs)
    \/ ClearAll

SpecCases == Init /\ [][NextCases]_vars

(***************************************************************************)
(* Specification of the fetch-format-store sequence: the list endpoints    *)
(* while upstream changes what it publishes, records without their keys    *)
(* included, and while entries expire.                                     *)
(***************************************************************************)
\* Every list holds a record that formats, then one that raises KeyError.
WorldBroken ==
    [states     |-> <<RawRegion(1, nX, FALSE, TRUE),
                      [commissionId |-> 2, circuitAdditionBenchStatus |-> FALSE,
                       activeStatus |-> TRUE]>>,
     districts  |-> (1 :> <<RawRegion(12, nXY, FALSE, TRUE),
                            [commissionId |-> 13, commissionNameEn |-> nX,
                             circuitAdditionBenchStatus |-> FALSE]>>),
     categories |-> <<RawCategory(32, nXY), [caseCategoryId |-> 33]>>,
     judges     |-> (11 :> <<RawJudge(22, nXY), [judgeName |-> nX]>>),
     cases      |-> [shape |-> "list", records |-> <<>>]]

\* Inactive records without their keys, which the comprehension skips.
WorldSkipped ==
    [states     |-> <<[activeStatus |-> FALSE], RawRegion(2, nXY, FALSE, TRUE)>>,
     districts  |-> (1 :> <<[commissionId |-> 14, activeStatus |-> FALSE],
                            RawRegion(12, nX, TRUE, TRUE)>>),
     categories |-> <<RawCategory(32, nXY)>>,
     judges     |-> (11 :> <<>>),
     cases      |-> [shape |-> "list", records |-> <<>>]]

StoreWorlds == {BaseWorld, WorldBroken, WorldSkipped}

StoreReqs == {q \in ListReqs : q.id \in {PyNone, PyInt(1), PyInt(11)}}

StoreScripts == {<<Ok, Ok, Ok>>, <<Timeout, Ok, Ok>>, <<Response(503), Ok, Ok>>}

InitStore ==
    /\ now = 0
    /\ cache = CacheInit
    /\ upstream \in StoreWorlds
    /\ req = [p \in Procs |-> Request("idle", NoArgs)]

NextStore ==
    \/ \E p \in Procs : \E q \in StoreReqs : Start(p, q)
    \/ \E p \in Procs : HttpAttempt(p, StoreScripts)
    \/ \E p \in Procs : Finish(p)
    \/ Republish(StoreWorlds)
    \/ Tick(MaxTicks)

SpecStore == InitStore /\ [][NextStore]_vars

(***************************************************************************)
(* Specification of concurrent requests: two requests for the state list   *)
(* and the commissions of one state, interleaved at their awaits, while    *)
(* upstream changes what it publishes.                                     *)
(***************************************************************************)
Procs2 == {1, 2}

ConcWorlds == {BaseWorld, WorldSkipped}

ConcReqs == {q \in ListReqs : q.op = "route_get_states" \/ q.id = PyInt(1)}

InitConc ==
    /\ now = 0
    /\ cache = CacheInit
    /\ upstream \in ConcWorlds
    /\ req = [p \in Procs2 |-> Request("idle", NoArgs)]

NextConc ==
    \/ \E p \in Procs2 : \E q \in ConcReqs : Start(p, q)
    \/ \E p \in Procs2 : HttpAttempt(p, {<<Ok, Ok, Ok>>})
    \/ \E p \in Procs2 : Finish(p)
    \/ Republish(ConcWorlds)

SpecConc == InitConc /\ [][NextConc]_vars

(***************************************************************************)
(* Specification of the administrative operations: the list endpoints      *)
(* with clear-all and the occupancy report, while entries expire.          *)
(***************************************************************************)
NextAdmin ==
    \/ \E p \in Procs : \E q \in CacheReqs : Start(p, q)
    \/ \E p \in Procs : HttpAttempt(p, {<<Ok, Ok, Ok>>})
    \/ \E p \in Procs : Finish(p)
    \/ ClearAll
    \/ GetStats
    \/ Tick(MaxSearchTicks)

SpecAdmin == Init /\ [][NextAdmin]_vars

(***************************************************************************)
(* Specification of the judge lists: judges listed and resolved by name    *)
(* under several commissions, some sharing a judge name.                   *)
(***************************************************************************)
JudgeReqs ==
    {Args("search_by_judge", st, cm, 7, PyNone, PyStr(n), PyNone, PyNone, PyNone) :
        st \in {sx, sxy}, cm \in {sx, sxy}, n \in {sx, sxy}}
    \cup
    {Args("route_get_judges", <<>>, <<>>, 0, PyNone, PyNone, PyInt(id), PyNone, PyNone) :
        id \in {11, 12}}

NextJudges ==
    \/ \E p \in Procs : \E q \in JudgeReqs : Start(p, q)
    \/ \E p \in Procs : HttpAttempt(p, {<<Ok, Ok, Ok>>})
    \/ \E p \in Procs : Finish(p)
    \/ Tick(MaxSearchTicks)

SpecJudges == Init /\ [][NextJudges]_vars

(***************************************************************************)
(* Specification of eviction: one keyed cache at a time is filled beyond   *)
(* its maximum size under keys numbered in the order they are first        *)
(* stored, while the entry stored earliest is read.                        *)
(***************************************************************************)
\* How many keys beyond its maximum size a cache is offered.
MaxOver == 2

\* The number a key was made from.
CommissionNo(key) == key[2]

JudgeNo(key) == key[2]

CaseKwargs(n) == <<<<"page", PyInt(n)>>>>

CaseNo(key) == key[1][2].n

Max(S) == CHOOSE i \in S : \A j \in S : j <= i

Oldest(S) == CHOOSE i \in S : \A j \in S : i <= j

\* The next unused number, while the cache is offered more keys.
Fresh(nos, maxsize) ==
    LET n == IF nos = {} THEN 1 ELSE Max(nos) + 1
    IN  IF n <= maxsize + MaxOver THEN {n} ELSE {}

CommissionNos == {CommissionNo(cache.commissions_cache[i].key) :
                     i \in 1..Len(cache.commissions_cache)}

JudgeNos == {JudgeNo(cache.judges_cache[i].key) : i \in 1..Len(cache.judges_cache)}

CaseNos == {CaseNo(cache.cases_cache[i].key) : i \in 1..Len(cache.cases_cache)}

\* cache.set_commissions(state_id, data)
SetCommissions(state_id, data) ==
    /\ cache' = set_commissions(cache, state_id, data, now)
    /\ UNCHANGED <<now, upstream, req>>

\* cache.get_commissions(state_id)
GetCommissions(state_id) ==
    /\ cache' = get_commissions_cache(cache, state_id, now)
    /\ UNCHANGED <<now, upstream, req>>

\* cache.set_judges(commission_id, data)
SetJudges(commission_id, data) ==
    /\ cache' = set_judges(cache, commission_id, data, now)
    /\ UNCHANGED <<now, upstream, req>>

\* cache.get_judges(commission_id)
GetJudges(commission_id) ==
    /\ cache' = get_judges_cache(cache, commission_id, now)
    /\ UNCHANGED <<now, upstream, req>>

\* cache.set_cases(data, **kwargs), without the bound of SetCases.
StoreCases(kwargs, data) ==
    /\ cache' = set_cases(cache, data, kwargs, now)
    /\ UNCHANGED <<now, upstream, req>>

InitEvict ==
    /\ now = 0
    /\ cache = CacheInit
    /\ upstream = World0
    /\ req = [p \in Procs |-> Request("idle", NoArgs)]

NextEvict ==
    \/ /\ cache.judges_cache = <<>> /\ cache.cases_cache = <<>>
       /\ \E n \in Fresh(CommissionNos, COMMISSIONS_MAXSIZE) : SetCommissions(n, <<>>)
    \/ /\ CommissionNos /= {}
       /\ GetCommissions(Oldest(CommissionNos))
    \/ /\ cache.commissions_cache = <<>> /\ cache.cases_cache = <<>>
       /\ \E n \in Fresh(JudgeNos, JUDGES_MAXSIZE) : SetJudges(n, <<>>)
    \/ /\ JudgeNos /= {}
       /\ GetJudges(Oldest(JudgeNos))
    \/ /\ cache.commissions_cache = <<>> /\ cache.judges_cache = <<>>
       /\ \E n \in Fresh(CaseNos, CASES_MAXSIZE) : StoreCases(CaseKwargs(n), <<"r1">>)
    \/ /\ CaseNos /= {}
       /\ GetCases(CaseKwargs(Oldest(CaseNos)))

SpecEvict == InitEvict /\ [][NextEvict]_vars

(***************************************************************************)
(* Specification of the shapes of a search response: a bare list, a page   *)
(* envelope, and bodies with the data or the content missing or null.      *)
(***************************************************************************)
Shapes == {"list", "page", "no_data", "no_content", "null_data", "null_content"}

\* Only a list or a page carries records.
ShapedCases(shape, records) ==
    [shape |-> shape, records |-> IF shape \in {"list", "page"} THEN records ELSE <<>>]

ShapeWorlds ==
    {[BaseWorld EXCEPT !.cases = ShapedCases(shape, records)] :
        shape \in Shapes, records \in {<<>>, Cases3}}

ShapeReqs ==
    {Args("search_by_text", sx, sx, k, PyStr(<<"v">>), PyNone, PyNone, PyNone, PyNone) :
        k \in {1, 5}}
    \cup
    {Args("search_by_judge", sx, sx, 7, PyNone, PyNone, PyInt(31), PyNone, PyNone)}

InitShapes ==
    /\ now = 0
    /\ cache = CacheInit
    /\ upstream \in ShapeWorlds
    /\ req = [p \in Procs |-> Request("idle", NoArgs)]

NextShapes ==
    \/ \E p \in Procs : \E q \in ShapeReqs : Start(p, q)
    \/ \E p \in Procs : HttpAttempt(p, {<<Ok, Ok, Ok>>, <<Timeout, Ok, Ok>>})
    \/ \E p \in Procs : Finish(p)

SpecShapes == InitShapes /\ [][NextShapes]_vars

(***************************************************************************)
(* Specification of the searches by category and by judge given an id, a   *)
(* name, or both, the id 0 included.                                       *)
(***************************************************************************)
IdsWithZero == {PyNone, PyInt(0), PyInt(31)}

IdReqs ==
    {Args(op[1], sx, sx, op[2], PyNone, name, id, PyNone, PyNone) :
        op \in {<<"search_by_industry_type", 6>>, <<"search_by_judge", 7>>},
        name \in Names, id \in IdsWithZero}

InitIds ==
    /\ now = 0
    /\ cache = CacheInit
    /\ upstream = BaseWorld
    /\ req = [p \in Procs |-> Request("idle", NoArgs)]

NextIds ==
    \/ \E p \in Procs : \E q \in IdReqs : Start(p, q)
    \/ \E p \in Procs : HttpAttempt(p, {<<Ok, Ok, Ok>>})
    \/ \E p \in Procs : Finish(p)

SpecIds == InitIds /\ [][NextIds]_vars

(***************************************************************************)
(* Specification of the failures: lists and searches against upstream      *)
(* answers of every kind, names that resolve to nothing, lists with a      *)
(* record that cannot be formatted, and a search body with null data.      *)
(***************************************************************************)
WorldNullData == [BaseWorld EXCEPT !.cases = ShapedCases("null_data", <<>>)]

ErrorWorlds == {BaseWorld, WorldBroken, WorldNullData}

ErrorReqs ==
    StoreReqs
    \cup
    {Args("search_by_text", st, cm, 1, PyStr(<<"v">>), PyNone, PyNone, PyNone, PyNone) :
        st \in {sx, sq}, cm \in {sx, sq}}
    \cup
    {Args(op[1], sx, sx, op[2], PyNone, PyStr(sq), PyNone, PyNone, PyNone) :
        op \in {<<"search_by_industry_type", 6>>, <<"search_by_judge", 7>>}}

ErrorScripts == {<<o, Ok, Ok>> : o \in Outcomes \cup {BadJson}}

InitErrors ==
    /\ now = 0
    /\ cache = CacheInit
    /\ upstream \in ErrorWorlds
    /\ req = [p \in Procs |-> Request("idle", NoArgs)]

NextErrors ==
    \/ \E p \in Procs : \E q \in ErrorReqs : Start(p, q)
    \/ \E p \in Procs : HttpAttempt(p, ErrorScripts)
    \/ \E p \in Procs : Finish(p)

SpecErrors == InitErrors /\ [][NextErrors]_vars

(***************************************************************************)
(* Specification of the client's answers: every client call against        *)
(* upstream answers of every kind, bodies that are not objects included.   *)
(***************************************************************************)
DiagReqs ==
    StoreReqs
    \cup
    {Args("search_by_text", sx, sx, 1, PyStr(<<"v">>), PyNone, PyNone, PyNone, PyNone)}

DiagScripts == {<<o, Ok, Ok>> : o \in Outcomes \cup {BadJson, NonObject}}

NextDiag ==
    \/ \E p \in Procs : \E q \in DiagReqs : Start(p, q)
    \/ \E p \in Procs : HttpAttempt(p, DiagScripts)
    \/ \E p \in Procs : Finish(p)

SpecDiag == InitIds /\ [][NextDiag]_vars

(***************************************************************************)
(* Specification of progress: process 1 runs list and search operations    *)
(* while process 2 fetches the state list.  Upstream answers every call    *)
(* process 1 sends it; the calls of process 2 may stay unanswered forever. *)
(***************************************************************************)
LiveReqs ==
    {Args("route_get_states", <<>>, <<>>, 0, PyNone, PyNone, PyNone, PyNone, PyNone),
     Args("route_get_judges", <<>>, <<>>, 0, PyNone, PyNone, PyInt(11), PyNone, PyNone),
     Args("search_by_text", sx, sx, 1, PyStr(<<"v">>), PyNone, PyNone, PyNone, PyNone),
     Args("search_by_judge", sx, sx, 7, PyNone, PyStr(sx), PyNone, PyNone, PyNone)}

OtherReqs ==
    {Args("route_get_states", <<>>, <<>>, 0, PyNone, PyNone, PyNone, PyNone, PyNone)}

LiveScripts == {<<o, Ok, Ok>> : o \in {Ok, Timeout, ConnectError, Response(503)}}

InitLive ==
    /\ now = 0
    /\ cache = CacheInit
    /\ upstream = BaseWorld
    /\ req = [p \in Procs2 |-> Request("idle", NoArgs)]

NextLive ==
    \/ \E q \in LiveReqs : Start(1, q)
    \/ \E q \in OtherReqs : Start(2, q)
    \/ \E p \in Procs2 : HttpAttempt(p, LiveScripts)
    \/ \E p \in Procs2 : Finish(p)
    \/ ClearAll

SpecLive ==
    /\ InitLive
    /\ [][NextLive]_vars
    /\ WF_vars(HttpAttempt(1, LiveScripts))

(***************************************************************************)
(* Specification of the whole-value caches under concurrency: two          *)
(* requests at a time list states and categories, populates fail, the      *)
(* caches are cleared and the entries expire.                              *)
(***************************************************************************)
WholeReqs == {q \in ListReqs : q.id = PyNone}

WholeWorlds == {BaseWorld, WorldBroken}

InitWhole ==
    /\ now = 0
    /\ cache = CacheInit
    /\ upstream \in WholeWorlds
    /\ req = [p \in Procs2 |-> Request("idle", NoArgs)]

NextWhole ==
    \/ \E p \in Procs2 : \E q \in WholeReqs : Start(p, q)
    \/ \E p \in Procs2 : HttpAttempt(p, {<<Ok, Ok, Ok>>, <<Timeout, Ok, Ok>>})
    \/ \E p \in Procs2 : Finish(p)
    \/ ClearAll
    \/ Republish(WholeWorlds)
    \/ Tick(MaxTicks)

SpecWhole == InitWhole /\ [][NextWhole]_vars

(***************************************************************************)
(* Specification of the judge search beside other activity: process 1      *)
(* searches by judge name while process 2 lists the commissions of the     *)
(* state, the caches are cleared or expire, and upstream republishes the   *)
(* state's commission under another id.                                    *)
(***************************************************************************)
\* BaseWorld after the commission named X got the id 12.
WorldMoved ==
    [BaseWorld EXCEPT !.districts = (1 :> <<RawRegion(12, nX, FALSE, TRUE)>>),
                      !.judges = (11 :> <<RawJudge(21, nX)>>) @@
                                 (12 :> <<RawJudge(22, nX)>>)]

RaceWorlds == {BaseWorld, WorldMoved}

RaceReqs ==
    {Args("search_by_judge", sx, sx, 7, PyNone, PyStr(sx), PyNone, PyNone, PyNone)}

RaceOtherReqs ==
    {Args("route_get_commissions", <<>>, <<>>, 0, PyNone, PyNone, PyInt(1), PyNone, PyNone)}

InitRace ==
    /\ now = 0
    /\ cache = CacheInit
    /\ upstream = BaseWorld
    /\ req = [p \in Procs2 |-> Request("idle", NoArgs)]

NextRace ==
    \/ \E q \in RaceReqs : Start(1, q)
    \/ \E q \in RaceOtherReqs : Start(2, q)
    \/ \E p \in Procs2 : HttpAttempt(p, {<<Ok, Ok, Ok>>})
    \/ \E p \in Procs2 : Finish(p)
    \/ ClearAll
    \/ Republish(RaceWorlds)
    \/ Tick(MaxSearchTicks)

SpecRace == InitRace /\ [][NextRace]_vars

(***************************************************************************)
(* Specification of the searches by names that normalise to the empty      *)
(* string: empty, a space, a pair of parentheses.                          *)
(***************************************************************************)
BlankNames == {<<>>, <<" ">>, <<"(", ")">>}

BlankReqs ==
    {Args("search_by_text", st, cm, 1, PyStr(<<"v">>), PyNone, PyNone, PyNone, PyNone) :
        st \in BlankNames \cup {sx}, cm \in BlankNames \cup {sx}}
    \cup
    {Args(op[1], sx, sx, op[2], PyNone, PyStr(name), PyNone, PyNone, PyNone) :
        op \in {<<"search_by_industry_type", 6>>, <<"search_by_judge", 7>>},
        name \in BlankNames}

InitBlank ==
    /\ now = 0
    /\ cache = CacheInit
    /\ upstream \in {World1, World2}
    /\ req = [p \in Procs |-> Request("idle", NoArgs)]

NextBlank ==
    \/ \E p \in Procs : \E q \in BlankReqs : Start(p, q)
    \/ \E p \in Procs : HttpAttempt(p, {<<Ok, Ok, Ok>>})
    \/ \E p \in Procs : Finish(p)

SpecBlank == InitBlank /\ [][NextBlank]_vars

(***************************************************************************)
(* Specification of repeated searches: two processes run the same          *)
(* searches, one after or beside the other, with the occupancy report.     *)
(***************************************************************************)
RepeatReqs ==
    {Args("search_by_text", sx, sx, 1, PyStr(<<"v">>), PyNone, PyNone, PyNone, PyNone),
     Args("search_by_industry_type", sx, sx, 6, PyNone, PyStr(sx), PyNone, PyNone, PyNone),
     Args("search_by_judge", sx, sx, 7, PyNone, PyStr(sx), PyNone, PyNone, PyNone)}

NextRepeat ==
    \/ \E p \in Procs2 : \E q \in RepeatReqs : Start(p, q)
    \/ \E p \in Procs2 : HttpAttempt(p, {<<Ok, Ok, Ok>>})
    \/ \E p \in Procs2 : Finish(p)
    \/ GetStats

SpecRepeat == InitLive /\ [][NextRepeat]_vars

(***************************************************************************)
(* Properties.                                                             *)
(***************************************************************************)
Count(seq, x) == Cardinality({i \in 1..Len(seq) : seq[i] = x})

SearchOps == {"search_by_text", "search_by_industry_type", "search_by_judge"}

\* The client request of r has ended (returned or raised).
ClientEnded(r) == r.attempt > 0 /\ r.pc /= "http"

\* C1: a search of any kind that returns a result list has invoked the
\* client's search call exactly once and sent exactly one HTTP request to the
\* search endpoint, and no search ever issues more than one.
C1_OneSearchCall ==
    \A p \in Procs :
        LET r == req[p]
        IN  /\ Count(r.calls, "search_cases") <= 1
            /\ Count(r.sent, "search_cases") <= 1
            /\ (r.pc = "done" /\ r.q.op \in SearchOps /\ ~IsNone(r.result))
                   => /\ Count(r.calls, "search_cases") = 1
                      /\ Count(r.sent, "search_cases") = 1

\* A judge search by name that fetched states, commissions and judges and
\* returned the formattable cases.
C1_Witness ==
    \E p \in Procs :
        /\ req[p].pc = "done"
        /\ req[p].q.op = "search_by_judge"
        /\ req[p].calls = <<"get_states", "get_districts", "get_judges", "search_cases">>
        /\ ~IsNone(req[p].result)
        /\ Len(req[p].result[1]) = 2

\* C2 (as claimed): when attempts 1 and 2 meet a transient transport failure
\* and attempt 3 would succeed, the client request returns the success.
C2_ThirdAttemptReturned ==
    \A p \in Procs :
        LET r == req[p]
        IN  (/\ ClientEnded(r)
             /\ r.script[1] \in Transient
             /\ r.script[2] \in Transient
             /\ r.script[3] = Ok)
                => r.cexc = NoExc /\ r.exc = NoExc

TypedTransportError(outcome) ==
    IF outcome = Timeout THEN APITimeoutException ELSE APIConnectionException

\* C3: when every attempt made for a client request meets a transient
\* transport failure the caller receives the typed transport error of the failure that
\* ended it, and never more than 3 attempts and 2 backoff waits are made.
C3_TransientFailureTyped ==
    \A p \in Procs :
        LET r == req[p]
        IN  /\ r.attempt <= 3
            /\ r.waits <= 2
            /\ (ClientEnded(r) /\ \A i \in 1..r.attempt : r.script[i] \in Transient)
                   => /\ r.cexc = TypedTransportError(r.script[r.attempt])
                      /\ r.pc = "done"
                      /\ r.exc = r.cexc

C3_Witness ==
    \E p \in Procs :
        /\ req[p].pc = "done"
        /\ req[p].script = <<ConnectError, Timeout, Timeout>>
        /\ req[p].exc.type = "APIConnectionException"
        /\ req[p].exc.status_code = 503

\* C4: when upstream answers a client request with a status outside 2xx,
\* one attempt is made and the request fails at once with an upstream HTTP
\* error carrying that status.
C4_HttpErrorNotRetried ==
    \A p \in Procs :
        LET r == req[p]
            first == r.script[1]
        IN  (/\ r.attempt > 0
             /\ first.kind = "response"
             /\ ~(first.code \in 200..299))
                => /\ r.attempt = 1
                   /\ r.waits = 0
                   /\ r.pc = "done"
                   /\ r.exc.type = "JagritiAPIException"
                   /\ r.exc.status_code = first.code

C4_Witness ==
    \E p \in Procs :
        /\ req[p].pc = "done"
        /\ req[p].script[1] = Response(503)
        /\ req[p].sent = <<"get_districts">>
        /\ req[p].exc.status_code = 503

Matching(name, list) ==
    {i \in 1..Len(list) : fuzzy_match(name, list[i].commission_name)}

Min(S) == CHOOSE i \in S : \A j \in S : i <= j

\* The id the tie-break rule names: the first non-circuit match if there is
\* one, else the first match.
PreferredCommission(name, list) ==
    LET M  == Matching(name, list)
        NC == {i \in M : ~list[i].is_circuit_bench}
    IN  IF NC /= {} THEN list[Min(NC)].commission_id
        ELSE list[Min(M)].commission_id

\* C5: for a non-empty commission list and a name with at least one match,
\* resolveCommission returns the first non-circuit-bench match in list order
\* if any match is non-circuit-bench, else the first match.
C5_CommissionTieBreak ==
    \A p \in Procs :
        LET r == req[p]
        IN  (/\ ~IsNone(r.commissions)
             /\ r.commissions[1] /= <<>>
             /\ Matching(r.q.commission, r.commissions[1]) /= {})
                => r.commission_id =
                       Some(PreferredCommission(r.q.commission, r.commissions[1]))

\* Two matches, the circuit bench listed first: the second one is returned.
C5_Witness ==
    \E p \in Procs :
        LET r == req[p]
        IN  /\ ~IsNone(r.commissions)
            /\ Len(r.commissions[1]) = 2
            /\ Matching(r.q.commission, r.commissions[1]) = {1, 2}
            /\ r.commissions[1][1].is_circuit_bench
            /\ ~r.commissions[1][2].is_circuit_bench
            /\ r.commission_id = Some(r.commissions[1][2].commission_id)

\* C6: when the resolved state has no active child commission,
\* resolveCommission returns the state's own id whatever the commission
\* name, and does not fail with CommissionNotFound.
C6_EmptyListIsState ==
    \A p \in Procs :
        LET r == req[p]
        IN  (~IsNone(r.state) /\ r.commissions = Some(<<>>))
                => /\ r.commission_id = Some(r.state[1].commission_id)
                   /\ r.exc.type /= "CommissionNotFoundException"

\* A commission name that matches nothing, under a state whose commissions
\* are all inactive upstream.
C6_Witness ==
    \E p \in Procs :
        LET r == req[p]
        IN  /\ r.pc = "done"
            /\ r.q.commission = sq
            /\ r.commissions = Some(<<>>)
            /\ Lookup(upstream.districts, r.state[1].commission_id) /= <<>>
            /\ r.commission_id = Some(r.state[1].commission_id)
            /\ ~IsNone(r.result)

NotFoundKinds == {"StateNotFoundException", "CommissionNotFoundException"}

UpstreamErrorKinds ==
    {"APITimeoutException", "APIConnectionException", "JagritiAPIException"}

FirstMatch(name, names) ==
    LET M == {i \in 1..Len(names) : fuzzy_match(name, names[i])}
    IN  IF M = {} THEN 0 ELSE Min(M)

\* The scan of a fetched list ended as the rule says: the first match in
\* list order, or the not-found error of the kind.
FirstOrNotFound(r, name, list, names, found, kind) ==
    LET i == FirstMatch(name, names)
    IN  IF i > 0 THEN found = Some(list[i])
        ELSE r.pc = "done" /\ r.exc.type = kind /\ r.exc.names = <<name>>

\* C8: resolveState, resolveCategory and resolveJudge each return the first
\* entry of their list, in upstream list order, whose name matches, and fail
\* with StateNotFound, CategoryNotFound or JudgeNotFound when none matches.
C8_FirstMatchOrNotFound ==
    \A p \in Procs :
        LET r == req[p]
        IN  /\ ~IsNone(r.states) =>
                   FirstOrNotFound(r, r.q.state, r.states[1],
                       [i \in 1..Len(r.states[1]) |-> r.states[1][i].commission_name],
                       r.state, "StateNotFoundException")
            /\ ~IsNone(r.categories) =>
                   FirstOrNotFound(r, r.q.name.s, r.categories[1],
                       [i \in 1..Len(r.categories[1]) |-> r.categories[1][i].category_name],
                       r.category, "CategoryNotFoundException")
            /\ ~IsNone(r.judges) =>
                   FirstOrNotFound(r, r.q.name.s, r.judges[1],
                       [i \in 1..Len(r.judges[1]) |-> r.judges[1][i].judge_name],
                       r.judge, "JudgeNotFoundException")

\* Two judges of the commission match the name; the first one is returned.
C8_Witness ==
    \E p \in Procs :
        LET r == req[p]
        IN  /\ r.pc = "done"
            /\ ~IsNone(r.judges)
            /\ Len(r.judges[1]) = 2
            /\ fuzzy_match(r.q.name.s, r.judges[1][1].judge_name)
            /\ fuzzy_match(r.q.name.s, r.judges[1][2].judge_name)
            /\ r.judge = Some(r.judges[1][1])
            /\ r.judge_id = Str(PyInt(r.judges[1][1].judge_id))

\* p enters a route handler in this step.
Enters(p) == req[p].pc = "idle" /\ req'[p].pc /= "idle"

\* The read p starts is answered from the cache: value returned, no fetch.
ServedFromCache(p, value) ==
    /\ req'[p].pc = "done"
    /\ req'[p].result = Some(value)
    /\ req'[p].exc = NoExc
    /\ req'[p].calls = <<>>

\* The read p starts goes to upstream with one call of fn.
Refetched(p, fn) == req'[p].pc = "http" /\ req'[p].calls = <<fn>>

\* A list cached at time T is served until T + ttl and refetched from then on.
FreshUntil(p, value, T, ttl, fn) ==
    IF now < T + ttl THEN ServedFromCache(p, value) ELSE Refetched(p, fn)

\* The same for a keyed cache, whose entries carry their expiry T + ttl.
KeyedFreshUntil(p, entries, key, fn) ==
    \A i \in 1..Len(entries) :
        entries[i].key = key =>
            IF now < entries[i].expires
            THEN ServedFromCache(p, entries[i].value)
            ELSE Refetched(p, fn)

FreshRead(p, kinds) ==
    LET q == req'[p].q
    IN  (Enters(p) /\ q.op \in kinds) =>
            CASE q.op = "route_get_states" ->
                     ~IsNone(cache.states_cache) =>
                         FreshUntil(p, cache.states_cache[1],
                                    cache.states_cache_time[1],
                                    CACHE_TTL_STATES, "get_states")
              [] q.op = "route_get_categories" ->
                     ~IsNone(cache.categories_cache) =>
                         FreshUntil(p, cache.categories_cache[1],
                                    cache.categories_cache_time[1],
                                    CACHE_TTL_CATEGORIES, "get_categories")
              [] q.op = "route_get_commissions" ->
                     KeyedFreshUntil(p, cache.commissions_cache,
                                     commissions_key(q.id.i), "get_districts")
              [] q.op = "route_get_judges" ->
                     KeyedFreshUntil(p, cache.judges_cache,
                                     judges_key(q.id.i), "get_judges")

\* C9 (as claimed): for states, categories, commissions of a state and
\* judges of a commission, a list cached at time T is returned unchanged and
\* without an upstream fetch by every read before T + ttl, and a read at or
\* after T + ttl fetches from upstream.
C9_FreshUntilTtl ==
    [][\A p \in Procs :
           FreshRead(p, {"route_get_states", "route_get_categories",
                         "route_get_commissions", "route_get_judges"})]_vars

\* The freshness rule for the two keyed caches alone.
KeyedFreshUntilTtl ==
    [][\A p \in Procs :
           FreshRead(p, {"route_get_commissions", "route_get_judges"})]_vars

\* C10: a fetch of the commissions of a state that yields an empty list of
\* active commissions stores the empty list under the state's key for the
\* commissions TTL, and a read of that state while the entry lives returns
\* the empty list without an upstream fetch.
C10_EmptyCommissionsCached ==
    [][\A p \in Procs :
           /\ (/\ req[p].pc = "http"
               /\ req[p].call.fn = "get_districts"
               /\ req'[p].pc = "done"
               /\ req'[p].result = Some(<<>>))
                  => \E i \in 1..Len(cache'.commissions_cache) :
                         cache'.commissions_cache[i] =
                             [key     |-> commissions_key(req[p].q.id.i),
                              value   |-> <<>>,
                              expires |-> now + COMMISSIONS_TTL]
           /\ (/\ Enters(p)
               /\ req'[p].q.op = "route_get_commissions"
               /\ \E i \in 1..Len(cache.commissions_cache) :
                      /\ cache.commissions_cache[i].key =
                             commissions_key(req'[p].q.id.i)
                      /\ cache.commissions_cache[i].value = <<>>
                      /\ now < cache.commissions_cache[i].expires)
                  => ServedFromCache(p, <<>>)]_vars

\* A read of the commissions of a state answered with the empty list that
\* an earlier read fetched and cached.
C10_Witness ==
    \E p \in Procs :
        /\ req[p].pc = "done"
        /\ req[p].q.op = "route_get_commissions"
        /\ req[p].result = Some(<<>>)
        /\ req[p].calls = <<>>
        /\ \E i \in 1..Len(cache.commissions_cache) :
               /\ cache.commissions_cache[i].key = commissions_key(req[p].q.id.i)
               /\ cache.commissions_cache[i].value = <<>>
               /\ cache.commissions_cache[i].expires <= now + TickStep
               /\ now < cache.commissions_cache[i].expires

ResolutionErrors ==
    {"StateNotFoundException", "CommissionNotFoundException",
     "CategoryNotFoundException", "JudgeNotFoundException"}

ReferenceFetches == {"get_states", "get_districts", "get_categories", "get_judges"}

\* C11: a search that fails with StateNotFound, CommissionNotFound,
\* CategoryNotFound or JudgeNotFound has issued no call to the upstream
\* search endpoint.
C11_NotFoundBeforeSearch ==
    \A p \in Procs :
        LET r == req[p]
        IN  (r.q.op \in SearchOps /\ r.exc.type \in ResolutionErrors)
                => /\ r.pc = "done"
                   /\ IsNone(r.result)
                   /\ Count(r.calls, "search_cases") = 0
                   /\ Count(r.sent, "search_cases") = 0

\* A judge search whose commission resolves and whose judge name matches no
\* judge of the commission.
C11_Witness ==
    \E p \in Procs :
        LET r == req[p]
        IN  /\ r.pc = "done"
            /\ r.q.op = "search_by_judge"
            /\ r.exc.type = "JudgeNotFoundException"
            /\ ~IsNone(r.judges)
            /\ r.judges[1] /= <<>>
            /\ r.calls = <<"get_states", "get_districts", "get_judges">>

Formattable(records) ==
    {i \in 1..Len(records) :
        ~IsNone(records[i].caseNumber) /\ ~IsNone(records[i].complainantName)}

\* The k-th smallest member of a set of positions.
Nth(S, k) == CHOOSE i \in S : Cardinality({j \in S : j < i}) = k - 1

\* C13: whatever list of raw records upstream returns, the search result is
\* the formatted records that can be formatted, in their original order, and
\* a record that cannot be formatted does not make the search fail; with 3
\* records whose 2nd is malformed the result is the 1st and the 3rd.
C13_PartialResults ==
    \A p \in Procs :
        LET r       == req[p]
            records == upstream.cases.records
            F       == Formattable(records)
        IN  (/\ r.pc = "done"
             /\ Count(r.sent, "search_cases") = 1
             /\ r.cexc = NoExc)
                => /\ r.exc = NoExc
                   /\ ~IsNone(r.result)
                   /\ Len(r.result[1]) = Cardinality(F)
                   /\ \A k \in 1..Cardinality(F) :
                          /\ r.result[1][k].case_number =
                                 records[Nth(F, k)].caseNumber[1]
                          /\ r.result[1][k].complainant =
                                 records[Nth(F, k)].complainantName[1]

\* Three records, the second with a null case number: the first and the
\* third are returned.
C13_Witness ==
    \E p \in Procs :
        LET r == req[p]
        IN  /\ r.pc = "done"
            /\ Len(upstream.cases.records) = 3
            /\ Formattable(upstream.cases.records) = {1, 3}
            /\ r.result = Some(<<[case_number |-> "DC/1", complainant |-> "A"],
                                 [case_number |-> "DC/3", complainant |-> "C"]>>)

\* p issues the search call in this step.
IssuesSearch(p) ==
    /\ req'[p].pc = "http"
    /\ req'[p].call.fn = "search_cases"
    /\ Len(req'[p].calls) = Len(req[p].calls) + 1 \/ req[p].pc = "idle"

\* C14: a search request without a date range sends fromDate =
\* <current year>-01-01 and toDate = <current year>-12-31, the year being
\* that of the clock when the call is made; a request with both dates sends
\* the dates it supplies.
C14_DateRange ==
    [][\A p \in Procs :
           LET q    == req'[p].q
               sent == req'[p].call.payload
           IN  IssuesSearch(p) =>
                   /\ (q.from_date = PyNone /\ q.to_date = PyNone)
                          => /\ sent.fromDate.t = "str" /\ sent.toDate.t = "str"
                             /\ sent.fromDate.i = CurrentYear(now)
                             /\ sent.fromDate.s = <<"-01-01">>
                             /\ sent.toDate.i = CurrentYear(now)
                             /\ sent.toDate.s = <<"-12-31">>
                   /\ (q.from_date /= PyNone /\ q.to_date /= PyNone)
                          => /\ sent.fromDate = q.from_date
                             /\ sent.toDate = q.to_date]_vars

\* A search without dates issued after the year has turned.
C14_Witness ==
    \E p \in Procs :
        LET r == req[p]
        IN  /\ r.pc = "http"
            /\ r.call.fn = "search_cases"
            /\ r.attempt = 0
            /\ r.q.from_date = PyNone /\ r.q.to_date = PyNone
            /\ now >= SecondsPerYear
            /\ r.call.payload.fromDate.i = StartYear + 1
            /\ r.call.payload.toDate.s = <<"-12-31">>

\* The search-kind code of the entry point a request came in by.
EntryCode(q) ==
    CASE q.op = "search_by_industry_type" -> 6
      [] q.op = "search_by_judge"         -> 7
      [] OTHER                            -> q.search_type

JudgeByName(q) ==
    q.op = "search_by_judge" /\ PyTruthy(q.name) /\ ~PyTruthy(q.id)

\* C16: in a judge search given a judge name and no judge id, the
\* commission is resolved before the judges of that commission are read, the
\* judge is resolved among them before the search call is issued, and the
\* search call carries an empty search value and the resolved judge's id.
C16_JudgeByName ==
    \A p \in Procs :
        LET r == req[p]
        IN  JudgeByName(r.q) =>
                /\ ~IsNone(r.judges)
                       => /\ ~IsNone(r.judge_commission_id)
                          /\ \A i \in 1..Len(r.judges[1]) :
                                 r.judges[1][i].commission_id =
                                     r.judge_commission_id[1]
                /\ ~IsNone(r.judge)
                       => /\ ~IsNone(r.judges)
                          /\ r.judge[1] \in Range(r.judges[1])
                /\ "search_cases" \in Range(r.calls)
                       => /\ ~IsNone(r.judge)
                          /\ r.calls[Len(r.calls)] = "search_cases"
                          /\ r.call.payload.serchType = 7
                          /\ r.call.payload.serchTypeValue = PyStr(<<>>)
                          /\ r.call.payload.judgeId.t = "str"
                          /\ r.call.payload.judgeId.digits
                          /\ r.call.payload.judgeId.i = r.judge[1].judge_id
                          /\ r.call.payload.commissionId = r.judge_commission_id[1]

\* Judge "x" of commission 12 is resolved to id 21 and searched for.
C16_Witness ==
    \E p \in Procs :
        LET r == req[p]
        IN  /\ r.pc = "http"
            /\ JudgeByName(r.q)
            /\ r.calls = <<"get_states", "get_districts", "get_judges", "search_cases">>
            /\ r.judge_commission_id = Some(12)
            /\ r.judge[1].judge_id = 21
            /\ r.call.payload.judgeId.i = 21
            /\ r.call.payload.serchTypeValue = PyStr(<<>>)

NameOnly(q) ==
    /\ q.op \in {"search_by_industry_type", "search_by_judge"}
    /\ PyTruthy(q.name)
    /\ ~PyTruthy(q.id)

\* No active state listed by upstream matches the request's state name.
StateUnresolvable(q) ==
    \A i \in 1..Len(upstream.states) :
        ~(/\ upstream.states[i].activeStatus
          /\ fuzzy_match(q.state, upstream.states[i].commissionNameEn))

\* C17 (as claimed): in a category or judge search given only a name, the
\* commission is resolved before the category or judge name is looked up, so
\* a search whose state name is unresolvable and that ends in a resolution
\* error ends in StateNotFound.
C17_CommissionResolvedFirst ==
    \A p \in Procs :
        LET r == req[p]
        IN  NameOnly(r.q) =>
                /\ ~IsNone(r.categories) => ~IsNone(r.commission_id)
                /\ ~IsNone(r.judges) => ~IsNone(r.judge_commission_id)
                /\ (/\ r.pc = "done"
                    /\ r.exc.type \in ResolutionErrors
                    /\ StateUnresolvable(r.q))
                       => r.exc.type = "StateNotFoundException"

\* C18 (as claimed): normalisation is idempotent for every string,
\* parentheses next to non-space whitespace included, and it is insensitive
\* to case, to spaces and to parentheses.
C18_NormalizeIdempotent ==
    \A p \in Procs :
        LET s == req[p].q.state
            n == normalize_text(s)
        IN  /\ normalize_text(n) = n
            /\ normalize_text(UpperStr(s)) = n
            /\ normalize_text(Remove(" ", s)) = n
            /\ normalize_text(Remove("(", s)) = n

\* s is a contiguous part of t.
Within(s, t) ==
    \E i \in 1..(Len(t) + 1) : \E j \in 0..Len(t) : SubSeq(t, i, j) = s

\* C19: match(s, t) holds exactly when normalize(s) equals normalize(t) or
\* is a contiguous substring of it; match(a, a) holds for every a.  (That
\* match is not symmetric is what the witness shows.)
C19_MatchingRule ==
    \A p \in Procs :
        LET r == req[p]
            s == r.q.state
        IN  /\ fuzzy_match(s, s)
            /\ (~IsNone(r.states) /\ Len(r.states[1]) = 1) =>
                   LET t == r.states[1][1].commission_name
                       expected == \/ normalize_text(s) = normalize_text(t)
                                   \/ Within(normalize_text(s), normalize_text(t))
                   IN  /\ fuzzy_match(s, t) <=> expected
                       /\ ~IsNone(r.state) <=> expected
                       /\ IsNone(r.state) =>
                              r.exc.type = "StateNotFoundException"

\* "x" is found in state "Xy" although "Xy" does not match "x".
C19_Witness ==
    \E p \in Procs :
        LET r == req[p]
        IN  /\ ~IsNone(r.state)
            /\ r.q.state = <<"x">>
            /\ r.state[1].commission_name = <<"X", "y">>
            /\ ~fuzzy_match(r.state[1].commission_name, r.q.state)

\* Two parameter lists hold the same (name, value) pairs.
SamePairs(kw1, kw2) == Range(kw1) = Range(kw2)

\* C20: a result stored under a parameter list is returned by a read with
\* the same (name, value) pairs in any order, and a read with pairs that
\* differ in a name or a value is answered from a different entry, which the
\* store leaves as it was.
C20_KeyIgnoresOrder ==
    [][\A stored \in KwargsPool : \A data \in CaseResults :
           (now' = now /\ cache' = set_cases(cache, data, stored, now)) =>
               \A kwargs \in KwargsPool :
                   IF SamePairs(kwargs, stored)
                   THEN get_cases(cache', kwargs, now') = Some(data)
                   ELSE get_cases(cache', kwargs, now') =
                            get_cases(cache, kwargs, now')]_vars

\* r2 stored under (page=1, state="x") is read under (state="x", page=1),
\* while (page="x", state=1) reads the r1 stored under it.
C20_Witness ==
    /\ get_cases(cache, <<<<"page", PyInt(1)>>, <<"state", PyStr(<<"x">>)>>>>, now)
           = Some(<<"r2">>)
    /\ get_cases(cache, <<<<"state", PyStr(<<"x">>)>>, <<"page", PyInt(1)>>>>, now)
           = Some(<<"r2">>)
    /\ get_cases(cache, <<<<"page", PyStr(<<"x">>)>>, <<"state", PyInt(1)>>>>, now)
           = Some(<<"r1">>)
    /\ get_cases(cache, <<<<"page", PyInt(1)>>>>, now) = None

\* The cache entry a fetch of fn for key populates: its value and the time
\* it was stored at, both None when there is no entry.
KeyedEntry(entries, key, ttl) ==
    IF \E i \in 1..Len(entries) : entries[i].key = key
    THEN LET e == entries[CHOOSE i \in 1..Len(entries) : entries[i].key = key]
         IN  [value |-> Some(e.value), time |-> Some(e.expires - ttl)]
    ELSE [value |-> None, time |-> None]

EntryOf(c, fn, key) ==
    CASE fn = "get_states" ->
             [value |-> c.states_cache, time |-> c.states_cache_time]
      [] fn = "get_categories" ->
             [value |-> c.categories_cache, time |-> c.categories_cache_time]
      [] fn = "get_districts" ->
             KeyedEntry(c.commissions_cache, commissions_key(key), COMMISSIONS_TTL)
      [] fn = "get_judges" ->
             KeyedEntry(c.judges_cache, judges_key(key), JUDGES_TTL)

\* Some record of a fetched list lacks a key its formatting reads.
Malformed(fn, records) ==
    CASE fn \in {"get_states", "get_districts"} -> RegionsRaise(records)
      [] fn = "get_categories"                   -> CategoriesRaise(records)
      [] fn = "get_judges"                       -> JudgesRaise(records)

\* The complete formatted list of a fetched list.
FormattedList(fn, records, key) ==
    CASE fn = "get_states"     -> filtered_states(records)
      [] fn = "get_districts"  -> formatted_districts(records)
      [] fn = "get_categories" -> formatted_categories(records)
      [] fn = "get_judges"     -> formatted_judges(records, key)

\* C21: a fetch-format-store sequence of any reference kind either replaces
\* the cache entry of its kind and key with the complete newly formatted
\* list, stored at the current time, or leaves it untouched: when the fetch
\* fails or a fetched record cannot be formatted, the cached value and its
\* timestamp are what they were before and the operation fails.
C21_AllOrNothing ==
    [][\A p \in Procs :
           LET r       == req[p]
               fn      == r.call.fn
               records == UpstreamData(upstream, r.call).records
           IN  (r.pc = "http" /\ req'[p].pc /= "http" /\ fn \in ReferenceFetches) =>
                   IF req'[p].cexc /= NoExc \/ Malformed(fn, records)
                   THEN /\ cache' = cache
                        /\ req'[p].pc = "done"
                        /\ req'[p].exc /= NoExc
                        /\ IsNone(req'[p].result)
                   ELSE /\ EntryOf(cache', fn, r.key) =
                               [value |-> Some(FormattedList(fn, records, r.key)),
                                time  |-> Some(now)]
                        /\ req'[p].result = Some(FormattedList(fn, records, r.key))
                        /\ req'[p].exc = NoExc]_vars

\* A refetch of the expired state list met a record without its name: the
\* request failed and the expired list and its timestamp are still cached.
C21_Witness ==
    \E p \in Procs :
        /\ req[p].pc = "done"
        /\ req[p].q.op = "route_get_states"
        /\ req[p].exc = KeyError
        /\ req[p].sent = <<"get_states">>
        /\ cache.states_cache = Some(filtered_states(BaseWorld.states))
        /\ cache.states_cache_time = Some(0)
        /\ now >= CACHE_TTL_STATES

\* The list a read of op would be served from the cache, None on a miss.
CachedList(c, q, time) ==
    CASE q.op = "route_get_states" ->
             IF is_states_valid(c, CACHE_TTL_STATES, time) /\ Truthy(c.states_cache)
             THEN c.states_cache ELSE None
      [] q.op = "route_get_commissions" -> get_commissions(c, q.id.i, time)

FetchOf(q) == IF q.op = "route_get_states" THEN "get_states" ELSE "get_districts"

\* p's upstream fetch completes in this step.
Completes(p) == req[p].pc = "http" /\ req'[p].pc /= "http"

\* C22: two populate operations running concurrently on the same missing key
\* are not deduplicated: a read that finds the key missing issues its own
\* fetch although another one is in flight for it, each returns the list it
\* fetched itself, and every store replaces the entry, so that after both
\* the entry is the list of the store that happened last.
C22_LastWriteWins ==
    [][/\ \A p \in Procs2 :
              (Enters(p) /\ IsNone(CachedList(cache, req'[p].q, now)))
                  => Refetched(p, FetchOf(req'[p].q))
       /\ \A p \in Procs2 :
              Completes(p) =>
                  LET fn     == req[p].call.fn
                      key    == req[p].key
                      own    == FormattedList(fn, UpstreamData(upstream, req[p].call).records, key)
                  IN  /\ req'[p].result = Some(own)
                      /\ EntryOf(cache', fn, key).value = Some(own)
                      /\ \A o \in Procs2 \ {p} : req'[o] = req[o]
       /\ \A fn \in {"get_states", "get_districts"} :
              EntryOf(cache', fn, 1) /= EntryOf(cache, fn, 1)
                  => \E p \in Procs2 : Completes(p) /\ req[p].call.fn = fn]_vars

\* Both requests fetched the commissions of state 1 while the other was in
\* flight, got different lists, and the cache holds the list of request 1.
C22_Witness ==
    /\ \A p \in Procs2 :
           /\ req[p].pc = "done"
           /\ req[p].q.op = "route_get_commissions"
           /\ req[p].sent = <<"get_districts">>
    /\ req[1].result /= req[2].result
    /\ get_commissions(cache, 1, now) = req[1].result

\* Every Region of a list is active.
AllActive(regions) == \A i \in 1..Len(regions) : regions[i].is_active

\* The ids upstream lists as inactive states or commissions.
InactiveIds ==
    {upstream.states[i].commissionId :
        i \in {j \in 1..Len(upstream.states) : ~upstream.states[j].activeStatus}}
    \cup
    UNION {{upstream.districts[k][i].commissionId :
               i \in {j \in 1..Len(upstream.districts[k]) :
                          ~upstream.districts[k][j].activeStatus}} :
           k \in DOMAIN upstream.districts}

\* C23: every Region returned by listStates or listCommissions, and every
\* Region held in the states or commissions cache, has isActive = true; an
\* entry upstream lists as inactive is never returned, cached or selected
\* by resolution.
C23_ActiveOnly ==
    /\ ~IsNone(cache.states_cache) =>
           /\ AllActive(cache.states_cache[1])
           /\ \A i \in 1..Len(cache.states_cache[1]) :
                  cache.states_cache[1][i].commission_id \notin InactiveIds
    /\ \A i \in 1..Len(cache.commissions_cache) :
           /\ AllActive(cache.commissions_cache[i].value)
           /\ \A j \in 1..Len(cache.commissions_cache[i].value) :
                  cache.commissions_cache[i].value[j].commission_id \notin InactiveIds
    /\ \A p \in Procs :
           LET r == req[p]
           IN  /\ ~IsNone(r.states) => AllActive(r.states[1])
               /\ ~IsNone(r.commissions) => AllActive(r.commissions[1])
               /\ ~IsNone(r.state) =>
                      r.state[1].is_active /\ r.state[1].commission_id \notin InactiveIds
               /\ ~IsNone(r.commission_id) => r.commission_id[1] \notin InactiveIds

\* Upstream lists an inactive commission whose name matches first and an
\* active one second: the second is cached alone and selected.
C23_Witness ==
    \E p \in Procs :
        LET r == req[p]
            d == upstream.districts[1]
        IN  /\ r.pc = "done"
            /\ Len(d) = 2
            /\ ~d[1].activeStatus /\ d[2].activeStatus
            /\ fuzzy_match(r.q.commission, d[1].commissionNameEn)
            /\ r.commissions = Some(<<FormatRegion(d[2])>>)
            /\ get_commissions(cache, 1, now) = r.commissions
            /\ r.commission_id = Some(d[2].commissionId)

EmptyStats ==
    [states_cached |-> FALSE, categories_cached |-> FALSE,
     commissions_count |-> 0, judges_count |-> 0, cases_count |-> 0]

NoneInFlight == \A p \in Procs : req[p].pc /= "http"

ListFetch(q) ==
    CASE q.op = "route_get_states"      -> "get_states"
      [] q.op = "route_get_categories"  -> "get_categories"
      [] q.op = "route_get_commissions" -> "get_districts"
      [] q.op = "route_get_judges"      -> "get_judges"

\* What reads can see of a cache: the whole-value caches and every live
\* entry of the keyed ones, in their order.
Visible(c, time) ==
    [c EXCEPT !.commissions_cache = TTLExpire(@, time),
              !.judges_cache      = TTLExpire(@, time),
              !.cases_cache       = TTLExpire(@, time)]

JudgesOf(commission_id) ==
    LET listed == Lookup(upstream.judges, commission_id)
    IN  [i \in 1..Len(listed) |->
            [judge_id |-> listed[i].judgeId, judge_name |-> listed[i].judgeName,
             commission_id |-> commission_id]]

\* C25: judges are scoped per commission: listJudges(c) and
\* resolveJudge(c, name) only return judge records whose commissionId is c,
\* a cache entry stored for commission c holds the judges of c and is read
\* for c only, and a name is resolved in the list of the commission it is
\* resolved under.
C25_JudgesPerCommission ==
    /\ \A i \in 1..Len(cache.judges_cache) :
           \E k \in {2, 11, 12} :
               /\ cache.judges_cache[i].key = judges_key(k)
               /\ cache.judges_cache[i].value = JudgesOf(k)
    /\ \A p \in Procs :
           LET r == req[p]
               c == IF r.q.op = "route_get_judges" THEN r.q.id.i
                    ELSE IF IsNone(r.judge_commission_id) THEN 0
                    ELSE r.judge_commission_id[1]
           IN  /\ ~IsNone(r.judges) =>
                      /\ r.judges[1] = JudgesOf(c)
                      /\ \A i \in 1..Len(r.judges[1]) :
                             r.judges[1][i].commission_id = c
               /\ ~IsNone(r.judge) =>
                      /\ r.judge[1].commission_id = c
                      /\ r.judge[1] \in Range(JudgesOf(c))
                      /\ r.judge[1] =
                             JudgesOf(c)[FirstMatch(r.q.name.s,
                                 [i \in 1..Len(JudgesOf(c)) |-> JudgesOf(c)[i].judge_name])]

\* The name "xy" was resolved under commission 11 to judge 23 from the
\* list fetched for 11, while the cached list of commission 12 holds judge
\* 22, whose name matches as well.
C25_Witness ==
    \E p \in Procs :
        LET r == req[p]
        IN  /\ r.q.op = "search_by_judge"
            /\ r.q.name = PyStr(sxy)
            /\ r.judge_commission_id = Some(11)
            /\ ~IsNone(r.judge)
            /\ r.judge[1].judge_id = 23
            /\ r.calls = <<"get_judges", "search_cases">>
            /\ get_judges(cache, 12, now) /= None
            /\ \E i \in 1..Len(get_judges(cache, 12, now)[1]) :
                   /\ get_judges(cache, 12, now)[1][i].judge_id = 22
                   /\ fuzzy_match(sxy, get_judges(cache, 12, now)[1][i].judge_name)

\* C26: in every reachable state the per-key caches hold at most their
\* configured maximum number of entries: at most 50 commission entries, 100
\* judge entries and 200 search-result entries, after any sequence of sets.
C26_WithinMaxsize ==
    /\ Len(cache.commissions_cache) <= 50
    /\ Len(cache.judges_cache) <= 100
    /\ Len(cache.cases_cache) <= 200
    /\ get_stats(cache, now).commissions_count <= 50
    /\ get_stats(cache, now).judges_count <= 100
    /\ get_stats(cache, now).cases_count <= 200

\* The search-result cache after its 202nd key was stored: 200 entries.
C26_Witness ==
    /\ Len(cache.cases_cache) = 200
    /\ 202 \in CaseNos
    /\ get_stats(cache, now).cases_count = 200

\* The key numbers of each keyed cache, in the order of its entries.
CommissionSeq ==
    [i \in 1..Len(cache.commissions_cache) |->
        CommissionNo(cache.commissions_cache[i].key)]

JudgeSeq ==
    [i \in 1..Len(cache.judges_cache) |-> JudgeNo(cache.judges_cache[i].key)]

CaseSeq ==
    [i \in 1..Len(cache.cases_cache) |-> CaseNo(cache.cases_cache[i].key)]

\* No entry of a keyed cache has expired.
AllLive ==
    \A entries \in {cache.commissions_cache, cache.judges_cache, cache.cases_cache} :
        \A i \in 1..Len(entries) : now < entries[i].expires

\* A new key is stored into a full cache between nos and nos2.
StoresIntoFull(nos, nos2, maxsize) ==
    /\ Len(nos) = maxsize
    /\ Len(nos2) = maxsize
    /\ nos2[maxsize] \notin Range(nos)

\* Keys are numbered in the order they are first stored and none is stored
\* twice, so the entry inserted earliest is the one of the smallest number.
EvictsEarliestInserted(nos, nos2, maxsize) ==
    (AllLive /\ StoresIntoFull(nos, nos2, maxsize))
        => Range(nos) \ Range(nos2) = {Oldest(Range(nos))}

\* C27 (as claimed): a set on a full per-key cache in which no entry has
\* expired evicts the entry inserted earliest, whichever entries were read
\* in between.
C27_EvictsEarliestInserted ==
    [][/\ EvictsEarliestInserted(CommissionSeq, CommissionSeq', COMMISSIONS_MAXSIZE)
       /\ EvictsEarliestInserted(JudgeSeq, JudgeSeq', JUDGES_MAXSIZE)
       /\ EvictsEarliestInserted(CaseSeq, CaseSeq', CASES_MAXSIZE)]_vars

\* nos2 is nos with one key moved to the end.
MovedToEnd(nos, nos2) ==
    \E k \in Range(nos) :
        nos2 = SelectSeq(nos, LAMBDA n : n /= k) \o <<k>>

Increasing(nos) == \A i \in 1..(Len(nos) - 1) : nos[i] < nos[i + 1]

\* The entry evicted is the one stored or read longest ago: a store appends
\* its key, a read that hits moves its key to the end, and the key at the
\* front goes.  Without a read since the entries were stored that is the
\* entry inserted earliest.
EvictsLeastRecentlyUsed(nos, nos2, maxsize) ==
    /\ (AllLive /\ StoresIntoFull(nos, nos2, maxsize))
           => /\ nos2 = Tail(nos) \o <<nos2[maxsize]>>
              /\ Increasing(nos) => nos[1] = Oldest(Range(nos))
    /\ (Range(nos2) = Range(nos) /\ nos2 /= nos) => MovedToEnd(nos, nos2)
    /\ (Len(nos2) = Len(nos) + 1) => nos2 = Append(nos, nos2[Len(nos2)])

\* C27 (amended): a set on a full per-key cache in which no entry has
\* expired evicts the least recently used entry, a read that hits counting
\* as a use; it is the entry inserted earliest when no entry was read since.
C27_EvictsLeastRecentlyUsed ==
    [][/\ EvictsLeastRecentlyUsed(CommissionSeq, CommissionSeq', COMMISSIONS_MAXSIZE)
       /\ EvictsLeastRecentlyUsed(JudgeSeq, JudgeSeq', JUDGES_MAXSIZE)
       /\ EvictsLeastRecentlyUsed(CaseSeq, CaseSeq', CASES_MAXSIZE)]_vars

\* Commissions 1 to 50 were stored, 1 was read, and storing 51 evicted 2.
C27_Witness ==
    /\ Len(CommissionSeq) = COMMISSIONS_MAXSIZE
    /\ {1, 51} \subseteq Range(CommissionSeq)
    /\ 2 \notin Range(CommissionSeq)
    /\ AllLive

\* Upstream answered the one search call of the finished search of p.
Answered(p) ==
    /\ req[p].pc = "done"
    /\ Count(req[p].sent, "search_cases") = 1
    /\ req[p].cexc = NoExc

\* C28: when the data field of upstream's answer is a list, the records
\* processed are that list; when it is a page envelope, they are its content
\* list; when the data field or the content field is absent, the search
\* returns an empty result and does not fail.
C28_RecordListExtraction ==
    \A p \in Procs :
        LET r     == req[p]
            shape == upstream.cases.shape
        IN  Answered(p) =>
                /\ shape \in {"list", "page"}
                       => /\ r.exc = NoExc
                          /\ r.result = Some(all_cases(upstream.cases.records))
                /\ shape \in {"no_data", "no_content"}
                       => /\ r.exc = NoExc
                          /\ r.result = Some(<<>>)

\* A page envelope of three records, the second with a null case number,
\* was answered and the first and third of its content were returned.
C28_Witness ==
    \E p \in Procs :
        /\ Answered(p)
        /\ upstream.cases = [shape |-> "page", records |-> Cases3]
        /\ req[p].result = Some(<<[case_number |-> "DC/1", complainant |-> "A"],
                                  [case_number |-> "DC/3", complainant |-> "C"]>>)

\* The search of p was given both an id and a name.
BothSupplied(p) ==
    /\ req[p].pc \notin {"off", "idle"}
    /\ req[p].q.op \in {"search_by_industry_type", "search_by_judge"}
    /\ req[p].q.id.t = "int"
    /\ req[p].q.name.t = "str"

\* The search of p resolved a name or fetched a list to resolve one.
NameResolved(p) ==
    \/ ~IsNone(req[p].category)
    \/ ~IsNone(req[p].judge)
    \/ "get_categories" \in Range(req[p].sent)
    \/ "get_judges" \in Range(req[p].sent)

\* The id given to the search of p is what its search call carries.
IdSent(p) ==
    LET r == req[p]
    IN  "search_cases" \in Range(r.sent) =>
            IF r.q.op = "search_by_industry_type"
            THEN r.payload.serchTypeValue = Str(r.q.id)
            ELSE r.payload.judgeId = Str(r.q.id)

\* C29: in category and judge searches given both an id and a name, the id
\* takes precedence for every id value, 0 included: no name is resolved, no
\* category or judge list is fetched, and the id given is what is sent
\* upstream (as search value for a category, as judgeId for a judge).
C29_IdTakesPrecedence ==
    \A p \in Procs : BothSupplied(p) => ~NameResolved(p) /\ IdSent(p)

\* The same, for the ids other than 0.
IdTakesPrecedenceNonZero ==
    \A p \in Procs :
        (BothSupplied(p) /\ req[p].q.id /= PyInt(0)) => ~NameResolved(p) /\ IdSent(p)

NotFoundExceptions ==
    {"StateNotFoundException", "CommissionNotFoundException",
     "CategoryNotFoundException", "JudgeNotFoundException"}

\* The operation of p failed: its route handler raised an HTTPException.
Failed(p) == req[p].pc = "done" /\ req[p].exc /= NoExc

\* What upstream met the last HTTP attempt of p with, when the failure of p
\* is the failure of that call.
FailedCall(p) == req[p].script[req[p].attempt]

\* C30: every failure of a list or search operation reaches the routing
\* layer with the status code of its kind: a name that is not found 404, an
\* upstream timeout 408, upstream unreachable 503, an upstream HTTP error
\* the status upstream answered, any other failure 500; and records that
\* cannot be formatted into case records make no search fail.
C30_StatusOfKind ==
    \A p \in Procs :
        LET r == req[p]
        IN  /\ Failed(p) =>
                IF r.cexc /= NoExc
                THEN CASE FailedCall(p).kind = "timeout"       -> r.status_code = 408
                       [] FailedCall(p).kind = "connect_error" -> r.status_code = 503
                       [] FailedCall(p).kind = "response"
                              -> r.status_code = FailedCall(p).code
                       [] OTHER                                -> r.status_code = 500
                ELSE IF r.exc.type \in NotFoundExceptions
                THEN r.status_code = 404
                ELSE r.status_code = 500
            /\ r.exc.type /= "CaseDataException"
            /\ (Answered(p) /\ upstream.cases.shape \in {"list", "page"})
                   => r.exc = NoExc /\ r.status_code = 0

\* A search for a state name that matches nothing was answered with 404.
C30_Witness ==
    \E p \in Procs :
        /\ Failed(p)
        /\ req[p].q.op = "search_by_text"
        /\ req[p].exc.type = "StateNotFoundException"
        /\ req[p].status_code = 404

\* The last client call of p has ended.
CallEnded(p) == req[p].attempt >= 1 /\ req[p].pc /= "http"

\* C31: the timing and outcome recording of a client request never alters
\* control flow: for every upstream answer, a 2xx answer whose body is not
\* an object or has no list-valued data field included, the request returns
\* or fails exactly as it would with the diagnostic statements removed.
C31_DiagnosticsInert ==
    \A p \in Procs :
        CallEnded(p) => req[p].cexc = make_request_unlogged(FailedCall(p))

\* An operation that has ended has a result or an error of the API family.
EndsTyped(p) ==
    req[p].pc = "done" =>
        \/ req[p].exc = NoExc /\ ~IsNone(req[p].result)
        \/ req[p].exc.type \in JagritiAPIExceptions

\* A judge search by name makes the most upstream calls: the state list and
\* the commission list twice when the first resolution's entries were
\* cleared, the judge list, and the search.
BoundedCalls(p) == Len(req[p].sent) <= 6

C33_ValueWithTimestamp ==
    /\ IsNone(cache.states_cache) <=> IsNone(cache.states_cache_time)
    /\ IsNone(cache.categories_cache) <=> IsNone(cache.categories_cache_time)

\* One request awaits upstream while the states are cached with their
\* timestamp and the other request's populate of the categories has failed.
C33_Witness ==
    \E p, o \in Procs2 :
        /\ req[p].pc = "http"
        /\ req[o].pc = "done"
        /\ req[o].q.op = "route_get_categories"
        /\ req[o].exc /= NoExc
        /\ ~IsNone(cache.states_cache)
        /\ ~IsNone(cache.states_cache_time)
        /\ IsNone(cache.categories_cache)

\* The judge search by name of p has sent its search call.
JudgeSearchSent(p) ==
    /\ req[p].q.op = "search_by_judge"
    /\ req[p].q.name.t = "str"
    /\ ~IsNone(req[p].judge_commission_id)
    /\ "search_cases" \in Range(req[p].sent)

\* C34: in a judge search by name, the commission id under which the judge
\* id was resolved is the commission id the upstream search call carries,
\* even when a cache clear, an expiry or a concurrent repopulation with
\* changed upstream data occurs between the operation's two commission
\* resolutions.
C34_OneCommission ==
    \A p \in Procs2 :
        JudgeSearchSent(p) =>
            req[p].payload.commissionId = req[p].judge_commission_id[1]

\* Exactly one of from_date and to_date is supplied.
OneDate(q) == (q.from_date = PyNone) /= (q.to_date = PyNone)

\* C35: when a search request supplies exactly one of from_date and to_date,
\* the supplied date is discarded and the search call carries the default
\* window of the current year for both bounds; a supplied date is sent only
\* when both are supplied.
C35_SingleDateDiscarded ==
    [][\A p \in Procs :
           LET q    == req'[p].q
               sent == req'[p].call.payload
           IN  IssuesSearch(p) =>
                   /\ OneDate(q)
                          => /\ sent.fromDate = get_default_date_range(now)[1]
                             /\ sent.toDate = get_default_date_range(now)[2]
                   /\ (sent.fromDate = q.from_date \/ sent.toDate = q.to_date)
                          => /\ q.from_date /= PyNone /\ q.to_date /= PyNone
                             /\ sent.fromDate = q.from_date
                             /\ sent.toDate = q.to_date]_vars

\* A search with only a from_date has issued its call with the default
\* window.
C35_Witness ==
    \E p \in Procs :
        LET r == req[p]
        IN  /\ r.pc = "http"
            /\ r.call.fn = "search_cases"
            /\ r.q.from_date /= PyNone /\ r.q.to_date = PyNone
            /\ r.call.payload.fromDate.s = <<"-01-01">>
            /\ r.call.payload.fromDate /= r.q.from_date
            /\ r.call.payload.toDate.s = <<"-12-31">>

\* The list a resolution of the search p went through, when it has one
\* with entries.
Listed(p, list) == req[p].q.op \in SearchOps /\ Truthy(list)

NonCircuit(commissions) == SelectSeq(commissions, LAMBDA cm : ~cm.is_circuit_bench)

\* A text that normalises to the empty string.
Blank(text) == normalize_text(text) = <<>>

\* A blank state, category or judge name resolves to the first entry of its
\* list and never fails as not found.
BlankTakesFirst(p) ==
    LET r == req[p]
    IN  /\ (Blank(r.q.state) /\ Listed(p, r.states))
               => /\ r.state = Some(r.states[1][1])
                  /\ r.exc.type /= "StateNotFoundException"
        /\ (r.q.name.t = "str" /\ Blank(r.q.name.s) /\ Listed(p, r.categories))
               => /\ r.category = Some(r.categories[1][1])
                  /\ r.exc.type /= "CategoryNotFoundException"
        /\ (r.q.name.t = "str" /\ Blank(r.q.name.s) /\ Listed(p, r.judges))
               => /\ r.judge = Some(r.judges[1][1])
                  /\ r.exc.type /= "JudgeNotFoundException"

\* C36 (as claimed): a search name that normalises to the empty string
\* matches every candidate: the state, category and judge resolutions return
\* the first list entry and the commission resolution returns the first
\* commission that is not a circuit bench, instead of failing as not found,
\* whenever the list is non-empty.
C36_BlankMatchesAll ==
    \A p \in Procs :
        /\ BlankTakesFirst(p)
        /\ (Blank(req[p].q.commission) /\ Listed(p, req[p].commissions))
               => /\ NonCircuit(req[p].commissions[1]) /= <<>>
                  /\ req[p].commission_id =
                         Some(NonCircuit(req[p].commissions[1])[1].commission_id)
                  /\ req[p].exc.type /= "CommissionNotFoundException"

\* C36 (amended): the same, the commission resolution returning the first
\* commission that is not a circuit bench, or the first commission when
\* every one is a circuit bench.
C36_BlankMatchesAllOrCircuit ==
    \A p \in Procs :
        /\ BlankTakesFirst(p)
        /\ (Blank(req[p].q.commission) /\ Listed(p, req[p].commissions))
               => LET commissions == req[p].commissions[1]
                      chosen == IF NonCircuit(commissions) /= <<>>
                                THEN NonCircuit(commissions)[1]
                                ELSE commissions[1]
                  IN  /\ req[p].commission_id = Some(chosen.commission_id)
                      /\ req[p].exc.type /= "CommissionNotFoundException"

\* A search for the state " " and the commission "()" resolved to state 1
\* and to commission 12, which is listed after a circuit bench.
C36_Witness ==
    \E p \in Procs :
        /\ req[p].q.state = <<" ">>
        /\ req[p].q.commission = <<"(", ")">>
        /\ req[p].state /= None /\ req[p].state[1].commission_id = 1
        /\ Len(req[p].states[1]) = 2
        /\ req[p].commissions /= None
        /\ req[p].commissions[1][1].is_circuit_bench
        /\ req[p].commission_id = Some(12)
        /\ "search_cases" \in Range(req[p].sent)

\* The search of p has returned its result.
Returned(p) ==
    /\ req[p].pc = "done"
    /\ req[p].q.op \in SearchOps
    /\ req[p].exc = NoExc

\* C37: no search operation reads or writes the search-result cache: in
\* every reachable state it is empty and reported with occupancy 0, and of
\* two identical searches in a row each issues its own upstream search call.
C37_ResultCacheUnused ==
    /\ cache.cases_cache = <<>>
    /\ get_stats(cache, now).cases_count = 0
    /\ \A p \in Procs2 :
           Returned(p) => Count(req[p].sent, "search_cases") = 1

\* Both processes have returned from the same text search; the second ran
\* after the first, found every list cached, and still sent its own search
\* call.
C37_Witness ==
    /\ Returned(1) /\ Returned(2)
    /\ req[1].q = req[2].q
    /\ req[1].q.op = "search_by_text"
    /\ req[1].sent = <<"get_states", "get_districts", "search_cases">>
    /\ req[2].sent = <<"search_cases">>
    /\ req[2].result = req[1].result
    /\ cache.cases_cache = <<>>

\* The search of p by category or by judge was given neither name nor id.
NeitherSupplied(p) ==
    /\ req[p].pc \notin {"off", "idle"}
    /\ req[p].q.op \in {"search_by_industry_type", "search_by_judge"}
    /\ req[p].q.id = PyNone
    /\ req[p].q.name = PyNone

\* str(None)
NoneText == PyStr(<<"N", "o", "n", "e">>)

\* C38: a judge search given neither a judge name nor a judge id, and a
\* category search given neither a category name nor a category id, do not
\* fail with a typed error before the upstream call: they resolve the
\* commission and issue the search call carrying the text of the missing
\* value.
C38_MissingValueSent ==
    \A p \in Procs :
        LET r == req[p]
        IN  NeitherSupplied(p) =>
                /\ ~NameResolved(p)
                /\ r.exc = NoExc
                /\ r.pc = "done" => Count(r.sent, "search_cases") = 1
                /\ r.call.fn = "search_cases" =>
                       /\ r.call.payload.commissionId = 11
                       /\ IF r.q.op = "search_by_industry_type"
                          THEN r.call.payload.serchTypeValue = NoneText
                          ELSE r.call.payload.judgeId = NoneText

\* A judge search without name and id awaits its search call, which
\* carries the judgeId "None".
C38_Witness ==
    \E p \in Procs :
        /\ NeitherSupplied(p)
        /\ req[p].q.op = "search_by_judge"
        /\ req[p].pc = "http"
        /\ req[p].call.fn = "search_cases"
        /\ req[p].call.payload.judgeId = NoneText
        /\ req[p].call.payload.serchTypeValue = PyStr(<<>>)

====
